---- MODULE Spec2Model ----
(***************************************************************************)
(* Model of the Porto de Santos line-up worker (philippalves/lineup): the  *)
(* field normalizers of src/src/worker.ts and of its sibling revisions     *)
(* (src/unnamed/part_001, part_002).  Cell texts are TLA+ strings; a       *)
(* regular expression of the source is translated to an operator that      *)
(* walks the string the way the regular expression engine does (leftmost   *)
(* start, greedy quantifiers, backtracking where it can change the         *)
(* outcome).  A nullable value v is <<>> (null) or <<v>>.                   *)
(***************************************************************************)
EXTENDS Integers, Sequences, FiniteSets, TLC

VARIABLES
    arrival,      \* date family: the text of the arrival cell
    now,          \* date family: now.getFullYear() at the call
    arrivalRes,   \* date family: the parser applied and what it returned
    cells,        \* identifier family: one table row
    imoRes,       \* identifier family: the extractor applied and its imo
    lenDraft,     \* length/draft family: the text of the cell
    lenDraftRes,  \* length/draft family: the parser applied and its pair
    notice,       \* notice family: the text of the notice cell
    noticeRes,    \* notice family: the translator applied and its notice_en
    bag,          \* cargo family: the goods, terminal, pier and agency texts
    cargoRes,     \* cargo family: the categorizer applied and its label
    header,       \* header family: the label of a header cell
    headerRes,    \* header family: the key headerKey gave it
    page,         \* page family: the tables of the fetched page
    ships,        \* page family: the records a handler made of the page
    flag,         \* flag family: the text of the flag cell
    flagRes,      \* flag family: the translator applied and its flag_en
    rows,         \* rewriter family: the rows collected so far
    cur,          \* rewriter family: the row being filled (its place in rows) or null
    col,          \* rewriter family: the index of the last cell of cur
    stray,        \* rewriter family: per row, the text stored under the index -1
    open,         \* rewriter family: the open tr and td elements, outermost first
    log,          \* rewriter family: per cell-start event, its tr and its fragments
    env,          \* request family: API_KEY of the deployment and the handler it runs
    cache,        \* request family: caches.default, the response stored under each URL
    reqs,         \* request family: the executions of fetch, each with its position
    data,         \* component family: the response shown, by the call that set it
    err,          \* component family: the error shown, by the call that set it
    loading,      \* component family: the loading flag
    calls         \* component family: the calls of fetchData, in the order issued

vars ==
    <<arrival, now, arrivalRes, cells, imoRes, lenDraft, lenDraftRes, notice,
      noticeRes, bag, cargoRes, header, headerRes, page, ships, flag,
      flagRes, rows, cur, col, stray, open, log, env, cache, reqs, data, err,
      loading, calls>>

\* the variables of each family
dateVars == <<arrival, now, arrivalRes>>
imoVars == <<cells, imoRes>>
lenVars == <<lenDraft, lenDraftRes>>
noticeVars == <<notice, noticeRes>>
cargoVars == <<bag, cargoRes>>
headerVars == <<header, headerRes>>
pageVars == <<page, ships>>
flagVars == <<flag, flagRes>>
rwVars == <<rows, cur, col, stray, open, log>>
reqVars == <<env, cache, reqs>>
uiVars == <<data, err, loading, calls>>

(***************************************************************************)
(* Nullable values and JavaScript string primitives.                       *)
(***************************************************************************)
Null == <<>>
Some(v) == <<v>>
IsNull(o) == o = <<>>
Val(o) == o[1]

NoCall == [fn |-> "none"]

\* s[i - 1] in JavaScript terms; "" past either end of the string
Ch(s, i) == IF 1 <= i /\ i <= Len(s) THEN SubSeq(s, i, i) ELSE ""

Digit == {"0", "1", "2", "3", "4", "5", "6", "7", "8", "9"}

Letter ==
    {SubSeq("abcdefghijklmnopqrstuvwxyzABCDEFGHIJKLMNOPQRSTUVWXYZ", i, i) : i \in 1..52}

\* \w of a JavaScript regular expression, over the characters the inputs use
WordChar == Digit \cup Letter \cup {"_"}

\* \s of a JavaScript regular expression, over the characters the inputs use
Space == {" "}

DigitVal(c) == CHOOSE n \in 0..9 : SubSeq("0123456789", n + 1, n + 1) = c

\* the longest run of digits of s that starts at i, cut at max (greedy \d{.,max})
DigitRun(s, i, max) ==
    CHOOSE k \in 0..max :
        /\ \A j \in 0..(k - 1) : Ch(s, i + j) \in Digit
        /\ k = max \/ Ch(s, i + k) \notin Digit

\* the longest run of white space of s that starts at i (greedy \s*)
SpaceRun(s, i) ==
    CHOOSE k \in 0..Len(s) :
        /\ \A j \in 0..(k - 1) : Ch(s, i + j) \in Space
        /\ Ch(s, i + k) \notin Space

\* String.prototype.trim
Trim(s) ==
    LET lead == SpaceRun(s, 1)
        last == CHOOSE e \in 0..Len(s) :
                    /\ e = 0 \/ Ch(s, e) \notin Space
                    /\ \A j \in (e + 1)..Len(s) : Ch(s, j) \in Space
    IN  IF lead >= Len(s) THEN "" ELSE SubSeq(s, lead + 1, last)

\* Number(s) for a string of decimal digits
RECURSIVE Number(_)
Number(s) ==
    IF Len(s) = 0 THEN 0
    ELSE 10 * Number(SubSeq(s, 1, Len(s) - 1)) + DigitVal(Ch(s, Len(s)))

\* String(n) for an integer n >= 0
RECURSIVE String(_)
String(n) ==
    IF n < 10 THEN SubSeq("0123456789", n + 1, n + 1)
    ELSE String(n \div 10) \o SubSeq("0123456789", (n % 10) + 1, (n % 10) + 1)

\* s.padStart(w, "0")
RECURSIVE padStart(_, _)
padStart(s, w) == IF Len(s) >= w THEN s ELSE padStart("0" \o s, w)

\* const pad = (n, w = 2) => String(n).padStart(w, "0")
pad(n, w) == padStart(String(n), w)

\* function pad2(n) { return n < 10 ? "0" + n : String(n); }
pad2(n) == IF n < 10 THEN "0" \o String(n) ELSE String(n)

(***************************************************************************)
(* Time values.  A JavaScript time value (milliseconds since the epoch) is *)
(* kept as [min, ms]: whole minutes since the epoch and the milliseconds   *)
(* within the minute, so that it fits the model checker's integers.        *)
(***************************************************************************)
tzOffsetMin == -180

MinutesPerDay == 1440

Abs(n) == IF n < 0 THEN -n ELSE n

\* Day(MakeDay(y, m - 1, d)) of ECMA-262 for a month m in 1..12: the number of
\* days from the epoch to the civil date, d itself unrestricted
DaysFromCivil(y, m, d) ==
    LET yy  == IF m <= 2 THEN y - 1 ELSE y
        era == yy \div 400
        yoe == yy - era * 400
        mp  == IF m > 2 THEN m - 3 ELSE m + 9
        doy == (153 * mp + 2) \div 5 + d - 1
        doe == yoe * 365 + yoe \div 4 - yoe \div 100 + doy
    IN  era * 146097 + doe - 719468

\* YearFromTime, MonthFromTime (1-based here) and DateFromTime of ECMA-262
CivilFromDays(z) ==
    LET zz  == z + 719468
        era == zz \div 146097
        doe == zz - era * 146097
        yoe == (doe - doe \div 1460 + doe \div 36524 - doe \div 146096) \div 365
        doy == doe - (365 * yoe + yoe \div 4 - yoe \div 100)
        mp  == (5 * doy + 2) \div 153
        m   == IF mp < 10 THEN mp + 3 ELSE mp - 9
    IN  [y |-> yoe + era * 400 + (IF m <= 2 THEN 1 ELSE 0),
         m |-> m,
         d |-> doy - (153 * mp + 2) \div 5 + 1]

\* Date.UTC(year, month, date, hours, minutes, seconds): month is 0-based and,
\* like every other field, rolls over when it is out of range
DateUTC(year, month, date, hours, minutes, seconds) ==
    LET yr  == IF 0 <= year /\ year <= 99 THEN 1900 + year ELSE year
        ym  == yr + (month \div 12)
        mn  == month % 12
        day == DaysFromCivil(ym, mn + 1, 1) + date - 1
    IN  [min |-> day * MinutesPerDay + hours * 60 + minutes + (seconds \div 60),
         ms  |-> (seconds % 60) * 1000]

\* t + k * 60 * 1000
AddMinutes(t, k) == [min |-> t.min + k, ms |-> t.ms]

getUTCFullYear(t) == CivilFromDays(t.min \div MinutesPerDay).y
getUTCMonth(t) == CivilFromDays(t.min \div MinutesPerDay).m - 1
getUTCDate(t) == CivilFromDays(t.min \div MinutesPerDay).d
getUTCHours(t) == (t.min % MinutesPerDay) \div 60
getUTCMinutes(t) == (t.min % MinutesPerDay) % 60
getUTCSeconds(t) == t.ms \div 1000

\* the template literal that builds iso in parsePt and parsePtBrDate
isoLocal(dloc, tz) ==
    pad(getUTCFullYear(dloc), 4) \o "-" \o pad(getUTCMonth(dloc) + 1, 2) \o "-"
        \o pad(getUTCDate(dloc), 2)
        \o "T" \o pad(getUTCHours(dloc), 2) \o ":" \o pad(getUTCMinutes(dloc), 2)
        \o ":" \o pad(getUTCSeconds(dloc), 2) \o "-"
        \o pad(Abs(tz) \div 60, 2) \o ":" \o pad(Abs(tz) % 60, 2)

NullDate == [iso |-> Null, ts |-> Null]

(***************************************************************************)
(* The date regular expression of parsePt,                                 *)
(*   (\d{1,2})\/(\d{1,2})(?:\/(\d{2,4}))?(?:\s+(\d{1,2})(?::(\d{1,2}))?)?  *)
(* and of parsePtBrDate, which has [\/\-] for each \/ and \s*(?:h)? at the *)
(* end of the time group (that tail captures nothing).  Neither is         *)
(* anchored.  Everything after the month is optional, so only the day can  *)
(* backtrack: a quantifier after it never gives back what it took.         *)
(***************************************************************************)
\* (?::(\d{1,2}))? after an hour of kh digits at ph
MinuteGroup(t, ph, kh) ==
    LET kmi == DigitRun(t, ph + kh + 1, 2)
    IN  [h  |-> Some(SubSeq(t, ph, ph + kh - 1)),
         mi |-> IF Ch(t, ph + kh) = ":" /\ kmi >= 1
                THEN Some(SubSeq(t, ph + kh + 1, ph + kh + kmi))
                ELSE Null]

\* (?:\s+(\d{1,2})(?::(\d{1,2}))?)? tried at p
TimeGroup(t, p) ==
    LET ws == SpaceRun(t, p)
    IN  IF ws >= 1 /\ DigitRun(t, p + ws, 2) >= 1
        THEN MinuteGroup(t, p + ws, DigitRun(t, p + ws, 2))
        ELSE [h |-> Null, mi |-> Null]

\* (?:\/(\d{2,4}))? tried at p; end is where the match goes on
YearGroup(t, p, seps) ==
    LET ky == DigitRun(t, p + 1, 4)
    IN  IF Ch(t, p) \in seps /\ ky >= 2
        THEN [y |-> Some(SubSeq(t, p + 1, p + ky)), end |-> p + 1 + ky]
        ELSE [y |-> Null, end |-> p]

DateGroups(d, mo, y, tg) ==
    [ok |-> TRUE, d |-> d, mo |-> mo, y |-> y, h |-> tg.h, mi |-> tg.mi]

DateAfterMonth(t, d, mo, yg) == DateGroups(d, mo, yg.y, TimeGroup(t, yg.end))

\* the day has kd digits at i, the month km digits after the separator
DateFromDay(t, i, kd, km, seps) ==
    DateAfterMonth(t, SubSeq(t, i, i + kd - 1), SubSeq(t, i + kd + 1, i + kd + km),
                   YearGroup(t, i + kd + 1 + km, seps))

DateMatchAt(t, i, seps) ==
    LET K == {k \in 1..2 : /\ DigitRun(t, i, k) = k
                           /\ Ch(t, i + k) \in seps
                           /\ Ch(t, i + k + 1) \in Digit}
        kd == CHOOSE k \in K : \A k2 \in K : k2 <= k
    IN  IF K = {} THEN [ok |-> FALSE]
        ELSE DateFromDay(t, i, kd, DigitRun(t, i + kd + 1, 2), seps)

\* t.match(re): the match at the leftmost position that has one
DateMatch(t, seps) ==
    LET S == {i \in 1..Len(t) : DateMatchAt(t, i, seps).ok}
    IN  IF S = {} THEN [ok |-> FALSE]
        ELSE DateMatchAt(t, CHOOSE i \in S : \A j \in S : i <= j, seps)

\* the numeric fields parsePt and parsePtBrDate read off the match
DateFields(m, nowYear) ==
    LET y0 == IF m.y # Null THEN Number(Val(m.y)) ELSE nowYear
    IN  [year |-> IF y0 < 100 THEN y0 + 2000 ELSE y0,
         mon  |-> Number(m.mo),
         day  |-> Number(m.d),
         hh   |-> IF m.h # Null THEN Number(Val(m.h)) ELSE 0,
         mm   |-> IF m.mi # Null THEN Number(Val(m.mi)) ELSE 0]

\* what both parsers do with the fields they keep
LocalDate(f, tz) ==
    LET utc == AddMinutes(DateUTC(f.year, f.mon - 1, f.day, f.hh, f.mm, 0), -tz)
        ts  == utc
        lt  == AddMinutes(ts, tz)
    IN  [iso |-> Some(isoLocal(lt, tz)), ts |-> Some(ts)]

parsePt(text, nowYear) ==
    IF text = "" THEN NullDate
    ELSE LET t == Trim(text)
             m == DateMatch(t, {"/"})
         IN  IF ~m.ok THEN NullDate
             ELSE LocalDate(DateFields(m, nowYear), tzOffsetMin)

\* parsePtBrDate's range check on the fields (worker.ts 412-413)
RangeChecked(f, tz) ==
    IF \/ f.mon < 1 \/ f.mon > 12 \/ f.day < 1 \/ f.day > 31
       \/ f.hh < 0 \/ f.hh > 23 \/ f.mm < 0 \/ f.mm > 59
    THEN NullDate
    ELSE LocalDate(f, tz)

parsePtBrDate(text, nowYear) ==
    IF text = "" THEN NullDate
    ELSE LET t == Trim(text)
             m == DateMatch(t, {"/", "-"})
         IN  IF ~m.ok THEN NullDate
             ELSE RangeChecked(DateFields(m, nowYear), tzOffsetMin)

(***************************************************************************)
(* parseBRDateTimeToISO (part_002): the anchored expression                *)
(*   ^(\d{2})\/(\d{2})\/(\d{4})\s+(\d{2}):(\d{2})(?::(\d{2}))?$            *)
(* then Date.parse of the text it formats.                                 *)
(***************************************************************************)
BRMatch(t) ==
    LET ws  == SpaceRun(t, 11)
        p   == 11 + ws
        q   == p + 5
        sec == Ch(t, q) = ":" /\ DigitRun(t, q + 1, 2) = 2 /\ Len(t) = q + 2
    IN  IF /\ DigitRun(t, 1, 2) = 2 /\ Ch(t, 3) = "/"
           /\ DigitRun(t, 4, 2) = 2 /\ Ch(t, 6) = "/"
           /\ DigitRun(t, 7, 4) = 4
           /\ ws >= 1
           /\ DigitRun(t, p, 2) = 2 /\ Ch(t, p + 2) = ":"
           /\ DigitRun(t, p + 3, 2) = 2
           /\ (Len(t) = q - 1 \/ sec)
        THEN [ok |-> TRUE,
              dd |-> SubSeq(t, 1, 2), mm |-> SubSeq(t, 4, 5),
              yyyy |-> SubSeq(t, 7, 10),
              HH |-> SubSeq(t, p, p + 1), MM |-> SubSeq(t, p + 3, p + 4),
              SS |-> IF sec THEN Some(SubSeq(t, q + 1, q + 2)) ELSE Null]
        ELSE [ok |-> FALSE]

\* Date.parse of V8 on the date-time format YYYY-MM-DDTHH:mm:ss-03:00: NaN
\* (null here) unless month is 1..12, day 1..31, hour 0..23 (or 24:00:00),
\* minute and second 0..59; a day past the end of its month rolls over.  Text
\* of another shape goes to V8's legacy parser and is not modelled: the inputs
\* keep the year at four digits.
DateParse(iso) ==
    LET shape == /\ Len(iso) = 25
                 /\ DigitRun(iso, 1, 4) = 4 /\ Ch(iso, 5) = "-"
                 /\ DigitRun(iso, 6, 2) = 2 /\ Ch(iso, 8) = "-"
                 /\ DigitRun(iso, 9, 2) = 2 /\ Ch(iso, 11) = "T"
                 /\ DigitRun(iso, 12, 2) = 2 /\ Ch(iso, 14) = ":"
                 /\ DigitRun(iso, 15, 2) = 2 /\ Ch(iso, 17) = ":"
                 /\ DigitRun(iso, 18, 2) = 2
                 /\ SubSeq(iso, 20, 25) = "-03:00"
        Y  == Number(SubSeq(iso, 1, 4))
        Mo == Number(SubSeq(iso, 6, 7))
        D  == Number(SubSeq(iso, 9, 10))
        H  == Number(SubSeq(iso, 12, 13))
        Mi == Number(SubSeq(iso, 15, 16))
        S  == Number(SubSeq(iso, 18, 19))
        valid == /\ Mo >= 1 /\ Mo <= 12 /\ D >= 1 /\ D <= 31
                 /\ Mi <= 59 /\ S <= 59
                 /\ (H <= 23 \/ (H = 24 /\ Mi = 0 /\ S = 0))
    IN  IF shape /\ valid
        THEN Some(AddMinutes(DateUTC(Y, Mo - 1, D, H, Mi, S), 180))
        ELSE Null

parseBRDateTimeToISO(s) ==
    IF s = "" THEN NullDate
    ELSE LET m == BRMatch(Trim(s))
         IN  IF ~m.ok THEN NullDate
             ELSE LET dd   == Number(m.dd)
                      mm   == Number(m.mm)
                      yyyy == Number(m.yyyy)
                      HH   == Number(m.HH)
                      MM   == Number(m.MM)
                      SS   == IF m.SS # Null THEN Number(Val(m.SS)) ELSE 0
                      iso  == String(yyyy) \o "-" \o pad2(mm) \o "-" \o pad2(dd)
                                  \o "T" \o pad2(HH) \o ":" \o pad2(MM) \o ":"
                                  \o pad2(SS) \o "-03:00"
                  IN  [iso |-> Some(iso), ts |-> DateParse(iso)]


(***************************************************************************)
(* Identifier (IMO) family.  A row is a sequence of cell texts; cells[i]   *)
(* of the source is Cell(cells, i), index 0 first.                         *)
(***************************************************************************)
\* cells[i] || ""
Cell(row, i) == IF i + 1 <= Len(row) THEN row[i + 1] ELSE ""

\* x || null
OrNull(x) == IF x = "" THEN Null ELSE Some(x)

\* allCells.join(" ")
RECURSIVE Join(_)
Join(row) ==
    IF Len(row) = 0 THEN ""
    ELSE IF Len(row) = 1 THEN row[1]
    ELSE row[1] \o " " \o Join(Tail(row))

\* s.replace(/\D+/g, "")  (part_002: onlyDigits, replace(/[^\d]/g, ""))
RECURSIVE onlyDigits(_)
onlyDigits(s) ==
    IF Len(s) = 0 THEN ""
    ELSE (IF Ch(s, 1) \in Digit THEN Ch(s, 1) ELSE "") \o onlyDigits(SubSeq(s, 2, Len(s)))

\* raw.replace(/^0+/, "")
RECURSIVE StripZeros(_)
StripZeros(s) == IF Ch(s, 1) = "0" THEN StripZeros(SubSeq(s, 2, Len(s))) ELSE s

\* /\b(\d{7})\b/ matches at i: seven digits with a word boundary on each side
SevenAt(s, i) ==
    /\ DigitRun(s, i, 7) = 7
    /\ Ch(s, i - 1) \notin WordChar
    /\ Ch(s, i + 7) \notin WordChar

\* MatchSeven with the capture taken one character late
MatchSeven_Late(s) ==
    LET S == {i \in 1..Len(s) : SevenAt(s, i)}
        i0 == CHOOSE i \in S : \A j \in S : i <= j
    IN  IF S = {} THEN Null ELSE Some(SubSeq(s, i0 + 1, i0 + 6) \o Ch(s, i0 + 7))

\* s.match(/\b(\d{7})\b/): the leftmost match, or null
MatchSeven(s) ==
    LET S == {i \in 1..Len(s) : SevenAt(s, i)}
        i0 == CHOOSE i \in S : \A j \in S : i <= j
    IN  IF S = {} THEN Null ELSE Some(SubSeq(s, i0, i0 + 6))

\* /^\d+$/ and the empty string
AllDigits(s) == \A i \in 1..Len(s) : Ch(s, i) \in Digit

\* extractImo after onlyDigits is computed
ImoOfDigits(digits, allCells) ==
    IF Len(digits) = 8 /\ AllDigits(digits) /\ Ch(digits, 1) = "0"
    THEN Some(String(Number(digits)))
    ELSE IF Len(digits) = 7 /\ AllDigits(digits) THEN Some(digits)
    ELSE MatchSeven(Join(allCells))

extractImo(terminalField, allCells) == ImoOfDigits(onlyDigits(terminalField), allCells)

\* const imoMatch = cells.join(" ").match(/\b\d{7}\b/)   (part_001 155-157)
imoMatch(allCells) == MatchSeven(Join(allCells))

\* mapRowToShip's imo (part_002 277-286), after raw = onlyDigits(cells[13])
ImoOfRaw(raw, trimmed) ==
    IF Len(raw) >= 7 /\ Len(trimmed) >= 7 /\ Len(trimmed) <= 9 THEN Some(trimmed) ELSE Null

mapRowToShipImo(row) ==
    IF Cell(row, 13) = "" THEN Null
    ELSE ImoOfRaw(onlyDigits(Cell(row, 13)), StripZeros(onlyDigits(Cell(row, 13))))

\* r.filter((v) => v?.trim()).length
RECURSIVE NonEmpty(_)
NonEmpty(row) ==
    IF Len(row) = 0 THEN 0
    ELSE (IF Trim(row[1]) # "" THEN 1 ELSE 0) + NonEmpty(Tail(row))

\* rows.filter((r) => r.filter((v) => v?.trim()).length >= 12)
usable(row) == NonEmpty(row) >= 12


(***************************************************************************)
(* Date family: the arrival texts the parsers are applied to.              *)
(***************************************************************************)
MaxDay == 32
MaxMonth == 13
MaxHour == 24
MaxMinute == 60

NowYears == {2024, 2026}

\* every day of every month, of a leap year and of a common year
CalendarTexts ==
    {pad2(d) \o "/" \o pad2(m) \o "/" \o y \o " 00:54" :
        d \in 0..MaxDay, m \in 0..MaxMonth, y \in {"2024", "2025"}}

\* every time of the day
ClockTexts ==
    {"16/09/2025 " \o pad2(h) \o ":" \o pad2(mi) : h \in 0..MaxHour, mi \in 0..MaxMinute}

\* the ways a date is written: padding, separators, year, time, text around it
FormTexts ==
    {pre \o d \o sep \o m \o y \o tm :
        pre \in {"", "x"},
        d \in {"7", "07", "32", "123"},
        sep \in {"/", "-"},
        m \in {"9", "09", "13", "0"},
        y \in {"", "/2025", "-2025", "/25", "/123"},
        tm \in {"", " 8h", "  8:5", " 25:70", " 8 h", "T08:00"}}

OtherTexts ==
    {"", " ", "abc", " 7/9 8 ", "07/09/2025 00:54:30", "16.09.2025", "1609", "16/", "/09", "16/x", "1/1",
     "32/13 25:70", "16/09/2025 00:54", "07/09 8h", "31/02/2025 10:00",
     "29/02/2025 00:00", "16/09/2025 24:00", "16/09/2025 12:00:60"}

ArrivalTexts == CalendarTexts \cup ClockTexts \cup FormTexts \cup OtherTexts

IdleImo == /\ cells = <<>> /\ imoRes = NoCall
IdleLenDraft == /\ lenDraft = "" /\ lenDraftRes = NoCall
IdleDate == /\ arrival = "" /\ now = 2026 /\ arrivalRes = NoCall
IdleNotice == notice = "" /\ noticeRes = NoCall
IdleCargo == bag = <<>> /\ cargoRes = NoCall
IdleHeader == header = "" /\ headerRes = NoCall
IdlePage == page = <<>> /\ ships = NoCall
IdleFlag == flag = "" /\ flagRes = NoCall
IdleRequest == env = <<>> /\ cache = <<>> /\ reqs = <<>>
IdleComponent == data = <<>> /\ err = <<>> /\ loading = FALSE /\ calls = <<>>
IdleRewriter ==
    rows = <<>> /\ cur = <<>> /\ col = -1 /\ stray = <<>> /\ open = <<>> /\ log = <<>>

\* the sweeps carry their year, so one value of now is enough for them
InitDate ==
    /\ arrival \in ArrivalTexts
    /\ now \in (IF arrival \in CalendarTexts \cup ClockTexts THEN {2026} ELSE NowYears)
    /\ arrivalRes = NoCall
    /\ IdleImo
    /\ IdleLenDraft
    /\ IdleNotice
    /\ IdleCargo
    /\ IdleHeader
    /\ IdlePage
    /\ IdleFlag
    /\ IdleRewriter
    /\ IdleRequest
    /\ IdleComponent

DateResult(fn, r) == [fn |-> fn, iso |-> r.iso, ts |-> r.ts]

\* const { iso, ts } = parsePt(arrival)               (worker.ts, part_001)
CallParsePt ==
    /\ arrivalRes = NoCall
    /\ arrivalRes' = DateResult("parsePt", parsePt(arrival, now))
    /\ UNCHANGED <<arrival, now, imoVars, lenVars, noticeVars, cargoVars, headerVars, pageVars, flagVars, rwVars, reqVars, uiVars>>

\* const { iso: arrival_iso, ts: arrival_ts } = parsePtBrDate(arrivalRaw)
CallParsePtBrDate ==
    /\ arrivalRes = NoCall
    /\ arrivalRes' = DateResult("parsePtBrDate", parsePtBrDate(arrival, now))
    /\ UNCHANGED <<arrival, now, imoVars, lenVars, noticeVars, cargoVars, headerVars, pageVars, flagVars, rwVars, reqVars, uiVars>>

\* const arrival = parseBRDateTimeToISO(cells[4] || null)        (part_002)
CallParseBRDateTimeToISO ==
    /\ arrivalRes = NoCall
    /\ arrivalRes' = DateResult("parseBRDateTimeToISO", parseBRDateTimeToISO(arrival))
    /\ UNCHANGED <<arrival, now, imoVars, lenVars, noticeVars, cargoVars, headerVars, pageVars, flagVars, rwVars, reqVars, uiVars>>

NextDate == CallParsePt \/ CallParsePtBrDate \/ CallParseBRDateTimeToISO

SpecDate == InitDate /\ [][NextDate]_vars


(***************************************************************************)
(* Claims about the date parsers.                                          *)
(***************************************************************************)
\* the match the parser named fn made on the arrival text
ArrivalMatch(fn) ==
    DateMatch(Trim(arrival), IF fn = "parsePt" THEN {"/"} ELSE {"/", "-"})

OutOfRange(f) ==
    \/ f.mon \notin 1..12 \/ f.day \notin 1..31
    \/ f.hh \notin 0..23 \/ f.mm \notin 0..59

\* C1: parsePt and parsePtBrDate return iso = null and ts = null for every text
\* that does not match the dd/mm pattern and for every text whose month, day,
\* hour or minute is out of range.
C1_OutOfRangeIsNull ==
    arrivalRes.fn \in {"parsePt", "parsePtBrDate"} =>
        LET m == ArrivalMatch(arrivalRes.fn)
        IN  (~m.ok \/ OutOfRange(DateFields(m, now))) =>
                (IsNull(arrivalRes.iso) /\ IsNull(arrivalRes.ts))

\* C2: each of the three date parsers returns a non-null iso if and only if it
\* returns a non-null ts.
C2_IsoIffTs ==
    arrivalRes.fn # "none" => (IsNull(arrivalRes.iso) <=> IsNull(arrivalRes.ts))

\* C3: for an accepted text with month 1..12, day 1..31, hour 0..23 and minute
\* 0..59, iso is the parsed year, month, day, hour and minute, seconds 00 and
\* -03:00, and ts is the UTC time of those fields plus 180 minutes.
C3_IsoCarriesParsedFields ==
    arrivalRes.fn \in {"parsePt", "parsePtBrDate"} =>
        LET m == ArrivalMatch(arrivalRes.fn)
            f == DateFields(m, now)
        IN  (m.ok /\ ~OutOfRange(f)) =>
                /\ arrivalRes.iso =
                       Some(pad(f.year, 4) \o "-" \o pad(f.mon, 2) \o "-" \o pad(f.day, 2)
                            \o "T" \o pad(f.hh, 2) \o ":" \o pad(f.mm, 2) \o ":00-03:00")
                /\ arrivalRes.ts =
                       Some(AddMinutes(DateUTC(f.year, f.mon - 1, f.day, f.hh, f.mm, 0), 180))


(***************************************************************************)
(* Identifier family: the rows the extractors are applied to.              *)
(***************************************************************************)
MaxZeros == 3
MaxDigits == 9

RECURSIVE Zeros(_)
Zeros(z) == IF z = 0 THEN "" ELSE "0" \o Zeros(z - 1)

\* n digits: 9, 8, 7, ...
RECURSIVE Countdown(_)
Countdown(n) ==
    IF n = 0 THEN "" ELSE Countdown(n - 1) \o Ch("9876543210", ((n - 1) % 10) + 1)

\* z leading zeros, then n digits
IdDigits(z, n) == Zeros(z) \o Countdown(n)

\* the same digits with a blank after the second character
Split(s) == IF Len(s) < 3 THEN s ELSE SubSeq(s, 1, 2) \o " " \o SubSeq(s, 3, Len(s))

IdTexts ==
    UNION {{d, "IMO " \o d, "x" \o d, d \o "x", Split(d)} :
              d \in {IdDigits(z, n) : z \in 0..MaxZeros, n \in 0..MaxDigits}}

DuvTexts == {"", "99", "1234567", "9876543"}

VoyageTexts == {"V1", "7654321"}

\* the layout of worker.ts 249-253: [10]=Voyage, [11]=DUV, [14]=Terminal
Row15(voy, duv, id) ==
    <<"MSC", "PA", "183 10.5", "L", "16/09 8h", "x", "AG", "EMB", "SOJA", "10",
      voy, duv, "B", "ALAMOA", id>>

\* the layout of part_002 260-262: [9]=Voyage, [10]=DUV, [13]=IMO
Row14(voy, duv, id) ==
    <<"MSC", "PA", "183 10.5", "L", "16/09 8h", "EMB", "AG", "OP", "10",
      voy, duv, "B", "ALAMOA", id>>

ImoRows ==
    {Row15(v, d, i) : v \in VoyageTexts, d \in DuvTexts, i \in IdTexts}
        \cup {Row14(v, d, i) : v \in VoyageTexts, d \in DuvTexts, i \in IdTexts}

InitImo ==
    /\ cells \in ImoRows
    /\ imoRes = NoCall
    /\ IdleDate
    /\ IdleLenDraft
    /\ IdleNotice
    /\ IdleCargo
    /\ IdleHeader
    /\ IdlePage
    /\ IdleFlag
    /\ IdleRewriter
    /\ IdleRequest
    /\ IdleComponent

\* the row mapping of worker.ts 254-310 and part_001 410-469
CallExtractImo ==
    /\ imoRes = NoCall
    /\ usable(cells)
    /\ imoRes' = [fn |-> "extractImo", imo |-> extractImo(Cell(cells, 14), cells),
                  duv |-> OrNull(Cell(cells, 11))]
    /\ UNCHANGED <<dateVars, cells, lenVars, noticeVars, cargoVars, headerVars, pageVars, flagVars, rwVars, reqVars, uiVars>>

\* the row mapping of part_001 131-190 and worker.ts 807-865
CallImoMatch ==
    /\ imoRes = NoCall
    /\ usable(cells)
    /\ imoRes' = [fn |-> "imoMatch", imo |-> imoMatch(cells),
                  duv |-> OrNull(Cell(cells, 11))]
    /\ UNCHANGED <<dateVars, cells, lenVars, noticeVars, cargoVars, headerVars, pageVars, flagVars, rwVars, reqVars, uiVars>>

\* mapRowToShip of part_002, on a row extractRows kept (8 cells or more; no
\* row here is a header row)
CallMapRowToShip ==
    /\ imoRes = NoCall
    /\ Len(cells) >= 8
    /\ imoRes' = [fn |-> "mapRowToShip", imo |-> mapRowToShipImo(cells),
                  duv |-> OrNull(Cell(cells, 10))]
    /\ UNCHANGED <<dateVars, cells, lenVars, noticeVars, cargoVars, headerVars, pageVars, flagVars, rwVars, reqVars, uiVars>>

NextImo == CallExtractImo \/ CallImoMatch \/ CallMapRowToShip

SpecImo == InitImo /\ [][NextImo]_vars

(***************************************************************************)
(* Claims about the identifier extractors.                                 *)
(***************************************************************************)
\* s has seven digits in a row somewhere
HasRun7(s) == \E i \in 1..Len(s) : DigitRun(s, i, 7) = 7

\* x occurs in s as it stands
Occurs(x, s) == \E a \in 1..(Len(s) - Len(x) + 1) : SubSeq(s, a, a + Len(x) - 1) = x

\* C4: the imo of a record is never the digits of the record's DUV field, and
\* it is null when the DUV cell is the only cell with a 7-digit run.
C4_ImoIsNotDuv ==
    imoRes.fn \in {"extractImo", "imoMatch"} =>
        /\ imoRes.imo # Null /\ imoRes.duv # Null =>
               Val(imoRes.imo) # onlyDigits(Val(imoRes.duv))
        /\ (/\ HasRun7(Cell(cells, 11))
            /\ \A i \in 0..(Len(cells) - 1) : i # 11 => ~HasRun7(cells[i + 1]))
               => imoRes.imo = Null

\* C5: a non-null imo of extractImo or mapRowToShip is a string of 7 to 9
\* decimal digits (exactly 7 unless leading zeros were stripped), never fewer.
C5_ImoLength ==
    (imoRes.fn \in {"extractImo", "mapRowToShip"} /\ imoRes.imo # Null) =>
        /\ AllDigits(Val(imoRes.imo))
        /\ Len(Val(imoRes.imo)) >= 7
        /\ Len(Val(imoRes.imo)) <= 9

\* C6: extractImo gives an 8-digit cell that begins with 0 without that zero,
\* a 7-digit cell unchanged, and null when no cell of the row has a 7-digit run.
C6_ExtractImoCases ==
    imoRes.fn = "extractImo" =>
        LET t == Cell(cells, 14)
        IN  /\ (Len(t) = 8 /\ AllDigits(t) /\ Ch(t, 1) = "0") =>
                   imoRes.imo = Some(SubSeq(t, 2, 8))
            /\ (Len(t) = 7 /\ AllDigits(t)) => imoRes.imo = Some(t)
            /\ (\A i \in 1..Len(cells) : ~HasRun7(cells[i])) => imoRes.imo = Null

DigitPositions(s) == {i \in 1..Len(s) : Ch(s, i) \in Digit}

NthDigitPosition(s, k) ==
    CHOOSE i \in DigitPositions(s) : Cardinality({j \in DigitPositions(s) : j <= i}) = k

\* x is the digits of the cell c, in order, without z leading zeros
DigitsOfCellAfter(x, c, z) ==
    /\ Len(x) = Cardinality(DigitPositions(c)) - z
    /\ \A k \in 1..z : Ch(c, NthDigitPosition(c, k)) = "0"
    /\ \A k \in 1..Len(x) : Ch(x, k) = Ch(c, NthDigitPosition(c, z + k))

\* the cell an extractor takes for the identifier cell
IdCell(fn) == IF fn = "mapRowToShip" THEN Cell(cells, 13) ELSE Cell(cells, 14)

replaceComma(s) ==
    LET S == {i \in 1..Len(s) : Ch(s, i) = ","}
        i0 == CHOOSE i \in S : \A j \in S : i <= j
    IN  IF S = {} THEN s ELSE SubSeq(s, 1, i0 - 1) \o "." \o SubSeq(s, i0 + 1, Len(s))

RECURSIVE StripTrailingZeros(_)
StripTrailingZeros(s) ==
    IF Ch(s, Len(s)) = "0" THEN StripTrailingZeros(SubSeq(s, 1, Len(s) - 1)) ELSE s

\* the number written with the whole digits w and the fraction digits f
Num(neg, w, f) == [neg |-> neg, int |-> Number(w), frac |-> StripTrailingZeros(f)]

\* the position after the greedy match of \d+(?:\.\d+)? at i, or 0 without a match
DecimalEnd(s, i) ==
    LET k == DigitRun(s, i, Len(s))
        j == DigitRun(s, i + k + 1, Len(s))
    IN  IF k = 0 THEN 0
        ELSE IF Ch(s, i + k) = "." /\ j > 0 THEN i + k + 1 + j
        ELSE i + k

\* Number(txt) / parseFloat(txt) of the text s[i..e-1] that matched \d+(?:\.\d+)?
DecimalValue(s, i, e, neg) ==
    Num(neg, SubSeq(s, i, i + DigitRun(s, i, Len(s)) - 1),
             SubSeq(s, i + DigitRun(s, i, Len(s)) + 1, e - 1))

\* String(x) of a number x in the range JavaScript writes in plain decimals
NumberToString(x) ==
    (IF x.neg /\ ~(x.int = 0 /\ x.frac = "") THEN "-" ELSE "")
        \o String(x.int) \o (IF x.frac = "" THEN "" ELSE "." \o x.frac)

NoLenDraft == [length |-> Null, draft |-> Null]

\* the rest of /^\s*(\d{2,4})\s*[\/ ]\s*(\d+(?:\.\d+)?)\s*$/ once the length
\* digits t[p0..p1-1] are taken: p2 is where the draft starts
SeparatedDraft(t, p0, p1, p2) ==
    IF DecimalEnd(t, p2) = 0 THEN Null
    ELSE IF DecimalEnd(t, p2) + SpaceRun(t, DecimalEnd(t, p2)) # Len(t) + 1 THEN Null
    ELSE Some([length |-> Some(Num(FALSE, SubSeq(t, p0, p1 - 1), "")),
               draft |-> Some(DecimalValue(t, p2, DecimalEnd(t, p2), FALSE))])

\* \s*[\/ ]\s* at p1: a run of blanks that holds one slash, or one blank at least
SeparatedAfterLength(t, p0, p1, a) ==
    IF Ch(t, p1 + a) = "/"
    THEN SeparatedDraft(t, p0, p1, p1 + a + 1 + SpaceRun(t, p1 + a + 1))
    ELSE IF a >= 1 THEN SeparatedDraft(t, p0, p1, p1 + a)
    ELSE Null

\* t.match(/^\s*(\d{2,4})\s*[\/ ]\s*(\d+(?:\.\d+)?)\s*$/)
MatchSeparated(t) ==
    LET p0 == 1 + SpaceRun(t, 1)
        k == DigitRun(t, p0, Len(t))
    IN  IF k < 2 \/ k > 4 THEN Null
        ELSE SeparatedAfterLength(t, p0, p0 + k, SpaceRun(t, p0 + k))

\* t.match(/^(\d{2,4})(\d+(?:\.\d+)?)$/): the length takes as many digits as
\* leave one for the draft, four at most
MatchGlued(t) ==
    LET n == DigitRun(t, 1, Len(t))
        k == IF n - 1 < 4 THEN n - 1 ELSE 4
    IN  IF n < 3 \/ DecimalEnd(t, k + 1) # Len(t) + 1 THEN Null
        ELSE Some([length |-> Some(Num(FALSE, SubSeq(t, 1, k), "")),
                   draft |-> Some(DecimalValue(t, k + 1, Len(t) + 1, FALSE))])

\* parseLenDraft after t is computed
LenDraftOf(t) ==
    IF MatchSeparated(t) # Null THEN Val(MatchSeparated(t))
    ELSE IF MatchGlued(t) # Null THEN Val(MatchGlued(t))
    ELSE NoLenDraft

\* function parseLenDraft(s) of worker.ts and part_001
parseLenDraft(s) == IF s = "" THEN NoLenDraft ELSE LenDraftOf(Trim(replaceComma(s)))


\* the optional group ([0-9]+(?:\.[0-9]+)?)? at i: its value, or null when the
\* group takes no part in the match
OptionalDecimal(s, i) ==
    IF DecimalEnd(s, i) = 0 THEN Null
    ELSE Some(DecimalValue(s, i, DecimalEnd(s, i), FALSE))

\* the position after the optional group at i
OptionalEnd(s, i) == IF DecimalEnd(s, i) = 0 THEN i ELSE DecimalEnd(s, i)

\* the match from the slash at q on: \/\s*([0-9]+(?:\.[0-9]+)?)?\s*$
InlineAfterSlash(t, p0, q) ==
    IF Ch(t, q) # "/" THEN NoLenDraft
    ELSE IF OptionalEnd(t, q + 1 + SpaceRun(t, q + 1))
              + SpaceRun(t, OptionalEnd(t, q + 1 + SpaceRun(t, q + 1))) # Len(t) + 1
         THEN NoLenDraft
    ELSE [length |-> OptionalDecimal(t, p0),
          draft |-> OptionalDecimal(t, q + 1 + SpaceRun(t, q + 1))]

\* the length/draft parse of the header-keyed handler, ld being the trimmed cell:
\* ld.replace(",", ".").match(/^\s*(N)?\s*\/\s*(N)?\s*$/), N = [0-9]+(?:\.[0-9]+)?
lengthDraftInline(ld) ==
    IF ld = "" THEN NoLenDraft
    ELSE InlineAfterSlash(replaceComma(ld), 1 + SpaceRun(replaceComma(ld), 1),
             OptionalEnd(replaceComma(ld), 1 + SpaceRun(replaceComma(ld), 1))
               + SpaceRun(replaceComma(ld),
                          OptionalEnd(replaceComma(ld), 1 + SpaceRun(replaceComma(ld), 1))))

\* where /-?\d+(?:\.\d+)?/ can start at or after from: the leftmost such place, 0 if none
NumberStart(s, from) ==
    LET S == {i \in from..Len(s) :
                 \/ Ch(s, i) \in Digit
                 \/ Ch(s, i) = "-" /\ Ch(s, i + 1) \in Digit}
    IN  IF S = {} THEN 0 ELSE CHOOSE i \in S : \A j \in S : i <= j

\* the position after the match that starts at i
NumberEnd(s, i) == DecimalEnd(s, IF Ch(s, i) = "-" THEN i + 1 ELSE i)

\* parseFloat of the match that starts at i; null when there is no match (i = 0)
NumberAt(s, i) ==
    IF i = 0 THEN Null
    ELSE IF Ch(s, i) = "-" THEN Some(DecimalValue(s, i + 1, NumberEnd(s, i), TRUE))
    ELSE Some(DecimalValue(s, i, NumberEnd(s, i), FALSE))

\* nums[0] and nums[1] of t.match(/-?\d+(?:\.\d+)?/g), the first starting at i
FirstTwoNumbers(t, i) ==
    [length |-> NumberAt(t, i),
     draft |-> IF i = 0 THEN Null ELSE NumberAt(t, NumberStart(t, NumberEnd(t, i)))]

\* function parseLenDraft(cell) of part_002 (length_m, draft_m)
parseLenDraftCell(cell) ==
    IF cell = "" THEN NoLenDraft
    ELSE FirstTwoNumbers(replaceComma(cell), NumberStart(replaceComma(cell), 1))


(***************************************************************************)
(* Length/draft family: the cell texts the three parsers are applied to.   *)
(***************************************************************************)
MaxLengthDigits == 5
MaxDraftDigits == 3

\* n digits: 1, 8, 3, 1, 0, 5, ...
RECURSIVE LengthDigits(_)
LengthDigits(n) ==
    IF n = 0 THEN "" ELSE LengthDigits(n - 1) \o Ch("183105", ((n - 1) % 6) + 1)

\* n digits: 1, 0, 5, ...
RECURSIVE DraftDigits(_)
DraftDigits(n) ==
    IF n = 0 THEN "" ELSE DraftDigits(n - 1) \o Ch("105", ((n - 1) % 3) + 1)

LengthTexts ==
    {"-", "183,5"}
        \cup {zero \o LengthDigits(n) : zero \in {"", "0"}, n \in 0..MaxLengthDigits}

SeparatorTexts == {"", "/", " ", " / ", "  ", "//"}

FractionTexts == {"", ".5", ",5", ".50", "."}

DraftTexts == {DraftDigits(n) \o f : n \in 0..MaxDraftDigits, f \in FractionTexts}

LenDraftTexts ==
    {pre \o l \o sep \o d : pre \in {"", " "}, l \in LengthTexts,
                           sep \in SeparatorTexts, d \in DraftTexts}

InitLen ==
    /\ lenDraft \in LenDraftTexts
    /\ lenDraftRes = NoCall
    /\ IdleDate
    /\ IdleImo
    /\ IdleNotice
    /\ IdleCargo
    /\ IdleHeader
    /\ IdlePage
    /\ IdleFlag
    /\ IdleRewriter
    /\ IdleRequest
    /\ IdleComponent

LenDraftResult(fn, r) == [fn |-> fn, length |-> r.length, draft |-> r.draft]

\* const { length, draft } = parseLenDraft(lenDraft)
CallParseLenDraft ==
    /\ lenDraftRes = NoCall
    /\ lenDraftRes' = LenDraftResult("parseLenDraft", parseLenDraft(lenDraft))
    /\ UNCHANGED <<dateVars, imoVars, lenDraft, noticeVars, cargoVars, headerVars, pageVars, flagVars, rwVars, reqVars, uiVars>>

\* the handler keyed by header: row[key] = val.trim(), then the inline parse
CallLengthDraftInline ==
    /\ lenDraftRes = NoCall
    /\ lenDraftRes' = LenDraftResult("lengthDraftInline", lengthDraftInline(Trim(lenDraft)))
    /\ UNCHANGED <<dateVars, imoVars, lenDraft, noticeVars, cargoVars, headerVars, pageVars, flagVars, rwVars, reqVars, uiVars>>

\* const lenDraft = parseLenDraft(cells[2]) of part_002
CallParseLenDraftCell ==
    /\ lenDraftRes = NoCall
    /\ lenDraftRes' = LenDraftResult("parseLenDraftCell", parseLenDraftCell(lenDraft))
    /\ UNCHANGED <<dateVars, imoVars, lenDraft, noticeVars, cargoVars, headerVars, pageVars, flagVars, rwVars, reqVars, uiVars>>

NextLen == CallParseLenDraft \/ CallLengthDraftInline \/ CallParseLenDraftCell

SpecLen == InitLen /\ [][NextLen]_vars


(***************************************************************************)
(* Claims about the length/draft parsers.                                  *)
(***************************************************************************)
\* the pair of a result
Pair(r) == [length |-> r.length, draft |-> r.draft]

\* C8: when parseLenDraft returns a pair (L, D) of numbers, parsing the text
\* L + "/" + D returns the same pair.
C8_RoundTrip ==
    (lenDraftRes.fn = "parseLenDraft" /\ lenDraftRes.length # Null) =>
        parseLenDraft(NumberToString(Val(lenDraftRes.length)) \o "/"
                          \o NumberToString(Val(lenDraftRes.draft)))
            = Pair(lenDraftRes)

\* s is k digits of length followed at once by a draft numeral that ends s
GluedAt(s, k) == DigitRun(s, 1, k) = k /\ DecimalEnd(s, k + 1) = Len(s) + 1

\* C9: for a text made of a length of 2 to 4 digits followed at once by the
\* draft, parseLenDraft returns a length and a draft the text is made of, and
\* for "18310.5" they are 183 and 10.5.
C9_GluedForm ==
    lenDraftRes.fn = "parseLenDraft" =>
        /\ (\E k \in 2..4 : GluedAt(lenDraft, k)) =>
               \E k \in 2..4 :
                   /\ GluedAt(lenDraft, k)
                   /\ lenDraftRes.length = Some(Num(FALSE, SubSeq(lenDraft, 1, k), ""))
                   /\ lenDraftRes.draft =
                          Some(DecimalValue(lenDraft, k + 1, Len(lenDraft) + 1, FALSE))
        /\ lenDraft = "18310.5" =>
               /\ lenDraftRes.length = Some(Num(FALSE, "183", ""))
               /\ lenDraftRes.draft = Some(Num(FALSE, "10", "5"))

\* s with every comma read as a dot
RECURSIVE CommasAsDots(_)
CommasAsDots(s) ==
    IF Len(s) = 0 THEN ""
    ELSE (IF Ch(s, 1) = "," THEN "." ELSE Ch(s, 1)) \o CommasAsDots(SubSeq(s, 2, Len(s)))

\* the position after a separator at e ("/" among blanks, or blanks), 0 if none
SeparatorEnd(t, e) ==
    IF Ch(t, e + SpaceRun(t, e)) = "/"
    THEN e + SpaceRun(t, e) + 1 + SpaceRun(t, e + SpaceRun(t, e) + 1)
    ELSE IF SpaceRun(t, e) >= 1 THEN e + SpaceRun(t, e)
    ELSE 0

\* t is two numerals with a separator between them
TwoNumbers(t) ==
    /\ DecimalEnd(t, 1) > 0
    /\ SeparatorEnd(t, DecimalEnd(t, 1)) > 0
    /\ DecimalEnd(t, SeparatorEnd(t, DecimalEnd(t, 1))) = Len(t) + 1

\* s is of one of the two-number forms: two numerals separated by "/" or
\* blanks, or a length of 2 to 4 digits followed at once by the draft
Recognized(s) ==
    \/ TwoNumbers(Trim(CommasAsDots(s)))
    \/ \E k \in 2..4 : GluedAt(Trim(CommasAsDots(s)), k)

\* the numeral s[i..e-1] holds every digit of s
LoneNumber(s, i, e) ==
    /\ Ch(s, i) \in Digit
    /\ DecimalEnd(s, i) = e
    /\ \A j \in 1..Len(s) : Ch(s, j) \in Digit => (i <= j /\ j < e)

\* C10: each length/draft parser returns both values or neither, returns
\* neither for a text that is not of a recognized two-number form, and never
\* returns as the length the one number a text holds.
C10_BothOrNeither ==
    lenDraftRes.fn # "none" =>
        /\ (lenDraftRes.length = Null) <=> (lenDraftRes.draft = Null)
        /\ ~Recognized(lenDraft) => Pair(lenDraftRes) = NoLenDraft
        /\ \A i \in 1..Len(lenDraft), e \in 1..(Len(lenDraft) + 1) :
               LoneNumber(replaceComma(lenDraft), i, e) =>
                   lenDraftRes.length
                       # Some(DecimalValue(replaceComma(lenDraft), i, e, FALSE))


\* C11: parseLenDraft (worker.ts and part_002) returns for a text what it
\* returns for the same text with every comma replaced by a dot.
C11_CommasAreDots ==
    /\ lenDraftRes.fn = "parseLenDraft" =>
           Pair(lenDraftRes) = parseLenDraft(CommasAsDots(lenDraft))
    /\ lenDraftRes.fn = "parseLenDraftCell" =>
           Pair(lenDraftRes) = parseLenDraftCell(CommasAsDots(lenDraft))


(***************************************************************************)
(* Notice translators.                                                     *)
(***************************************************************************)
LowerCase == "abcdefghijklmnopqrstuvwxyz"
UpperCase == "ABCDEFGHIJKLMNOPQRSTUVWXYZ"

\* the place of the character c in the alphabet abc, 0 when it is not in it
IndexIn(abc, c) ==
    LET S == {i \in 1..Len(abc) : Ch(abc, i) = c}
    IN  IF S = {} THEN 0 ELSE CHOOSE i \in S : TRUE

\* s.toUpperCase(), for texts of ASCII characters
RECURSIVE toUpperCase(_)
toUpperCase(s) ==
    IF Len(s) = 0 THEN ""
    ELSE (IF IndexIn(LowerCase, Ch(s, 1)) = 0 THEN Ch(s, 1)
          ELSE Ch(UpperCase, IndexIn(LowerCase, Ch(s, 1))))
             \o toUpperCase(SubSeq(s, 2, Len(s)))

\* s.includes(x)
includes(s, x) == \E a \in 1..(Len(s) - Len(x) + 1) : SubSeq(s, a, a + Len(x) - 1) = x

\* s.replace(/\s+/g, "")
RECURSIVE RemoveSpaces(_)
RemoveSpaces(s) ==
    IF Len(s) = 0 THEN ""
    ELSE (IF Ch(s, 1) \in Space THEN "" ELSE Ch(s, 1)) \o RemoveSpaces(SubSeq(s, 2, Len(s)))

\* translateNotice once t = code.toUpperCase() is computed
NoticeOfUpper(code, t) ==
    IF includes(t, "EMB") /\ includes(t, "DESC") THEN Some("Load & Unload")
    ELSE IF t = "EMB" THEN Some("Load")
    ELSE IF t = "DESC" THEN Some("Unload")
    ELSE Some(code)

\* function translateNotice(code) of worker.ts 90-97 (and 705-712, part_001)
translateNotice(code) == IF code = "" THEN Null ELSE NoticeOfUpper(code, toUpperCase(code))

\* the translator below with the containment test left out
NoticeOfUpperV2_NoContainment(code, t) ==
    IF t = "EMB" THEN Some("Load")
    ELSE IF t = "DESC" THEN Some("Unload")
    ELSE IF t = "EMBDESC" \/ t = "EMB/DESC" THEN Some("Load & Unload")
    ELSE Some(code)

\* translateNotice of worker.ts 463-470 once t is computed
NoticeOfUpperV2(code, t) ==
    IF t = "EMB" THEN Some("Load")
    ELSE IF t = "DESC" THEN Some("Unload")
    ELSE IF t = "EMBDESC" \/ t = "EMB/DESC" \/ (includes(t, "EMB") /\ includes(t, "DESC"))
    THEN Some("Load & Unload")
    ELSE Some(code)

\* function translateNotice(code) of worker.ts 463-470
translateNoticeV2(code) ==
    IF code = "" THEN Null ELSE NoticeOfUpperV2(code, toUpperCase(code))

\* noticeToEN once c is computed
NoticeOfCode(c) ==
    IF c = "" THEN Null
    ELSE IF c = "EMB" THEN Some("Load")
    ELSE IF c = "DESC" THEN Some("Unload")
    ELSE IF c = "EMBDESC" \/ c = "DESCEMB" THEN Some("Load & Unload")
    ELSE Null

\* function noticeToEN(code) of part_002
noticeToEN(code) == NoticeOfCode(RemoveSpaces(toUpperCase(code)))

(***************************************************************************)
(* Notice family: the codes the translators are applied to.                *)
(***************************************************************************)
MaxPieces == 3

NoticePieces == {"", "EMB", "emb", "DESC", "Desc", "/", " ", "X"}

\* the texts made of n pieces at most
RECURSIVE NoticeTexts(_)
NoticeTexts(n) ==
    IF n = 0 THEN {""} ELSE {a \o b : a \in NoticeTexts(n - 1), b \in NoticePieces}

InitNotice ==
    /\ notice \in NoticeTexts(MaxPieces)
    /\ noticeRes = NoCall
    /\ IdleDate
    /\ IdleImo
    /\ IdleLenDraft
    /\ IdleCargo
    /\ IdleHeader
    /\ IdlePage
    /\ IdleFlag
    /\ IdleRewriter
    /\ IdleRequest
    /\ IdleComponent

\* notice_en: translateNotice(notice)
CallTranslateNotice ==
    /\ noticeRes = NoCall
    /\ noticeRes' = [fn |-> "translateNotice", en |-> translateNotice(notice)]
    /\ UNCHANGED <<dateVars, imoVars, lenVars, notice, cargoVars, headerVars, pageVars, flagVars, rwVars, reqVars, uiVars>>

\* const notice_en = translateNotice(notice_code)
CallTranslateNoticeV2 ==
    /\ noticeRes = NoCall
    /\ noticeRes' = [fn |-> "translateNoticeV2", en |-> translateNoticeV2(notice)]
    /\ UNCHANGED <<dateVars, imoVars, lenVars, notice, cargoVars, headerVars, pageVars, flagVars, rwVars, reqVars, uiVars>>

\* const notice_en = noticeToEN(noticeCode)
CallNoticeToEN ==
    /\ noticeRes = NoCall
    /\ noticeRes' = [fn |-> "noticeToEN", en |-> noticeToEN(notice)]
    /\ UNCHANGED <<dateVars, imoVars, lenVars, notice, cargoVars, headerVars, pageVars, flagVars, rwVars, reqVars, uiVars>>

NextNotice == CallTranslateNotice \/ CallTranslateNoticeV2 \/ CallNoticeToEN

SpecNotice == InitNotice /\ [][NextNotice]_vars

(***************************************************************************)
(* Claims about the notice translators.                                    *)
(***************************************************************************)
\* the code, in upper case, holds both EMB and DESC
BothCodes(code) ==
    includes(toUpperCase(code), "EMB") /\ includes(toUpperCase(code), "DESC")

\* C12: a non-empty code that in upper case is not EMB, not DESC and does not
\* hold both EMB and DESC is returned unchanged by translateNotice and by
\* noticeToEN.
C12_OtherCodesPassThrough ==
    (/\ noticeRes.fn \in {"translateNotice", "noticeToEN"}
     /\ notice # ""
     /\ toUpperCase(notice) \notin {"EMB", "DESC"}
     /\ ~BothCodes(notice)) => noticeRes.en = Some(notice)

\* C13: translateNotice, in both orders of its tests, gives "Load & Unload"
\* for a code that in upper case holds EMB and DESC, "Load" for EMB and
\* "Unload" for DESC, and the two orders give the same result for every code.
C13_NoticeCases ==
    noticeRes.fn \in {"translateNotice", "translateNoticeV2"} =>
        /\ BothCodes(notice) => noticeRes.en = Some("Load & Unload")
        /\ toUpperCase(notice) = "EMB" => noticeRes.en = Some("Load")
        /\ toUpperCase(notice) = "DESC" => noticeRes.en = Some("Unload")
        /\ noticeRes.en = translateNotice(notice)
        /\ noticeRes.en = translateNoticeV2(notice)

\* C13 witness: the second order of tests was applied to a code that holds
\* EMB and DESC among other characters.
C13_ContainmentReached ==
    /\ noticeRes.fn = "translateNoticeV2"
    /\ BothCodes(notice)
    /\ toUpperCase(notice) \notin {"EMBDESC", "EMB/DESC"}
    /\ noticeRes.en = Some("Load & Unload")


(***************************************************************************)
(* Text normalization.  A combining mark (U+0300 to U+036F) is written     *)
(* "^", and an accented letter is written in its NFKD form, the letter     *)
(* followed by its mark: "o^leo" is the text "óleo".                       *)
(***************************************************************************)
\* one character through toLowerCase, the removal of the marks and
\* replace(/[^\w ]+/g, " "), a run of replaced characters being collapsed later
NormChar(c) ==
    IF c = "^" THEN ""
    ELSE IF IndexIn(UpperCase, c) # 0 THEN Ch(LowerCase, IndexIn(UpperCase, c))
    ELSE IF c \in WordChar THEN c
    ELSE " "

RECURSIVE NormChars(_)
NormChars(s) == IF Len(s) = 0 THEN "" ELSE NormChar(Ch(s, 1)) \o NormChars(SubSeq(s, 2, Len(s)))

\* s.replace(/\s+/g, " ") of a text whose white space is blanks
RECURSIVE CollapseSpaces(_)
CollapseSpaces(s) ==
    IF Len(s) < 2 THEN s
    ELSE IF Ch(s, 1) = " " /\ Ch(s, 2) = " " THEN CollapseSpaces(SubSeq(s, 2, Len(s)))
    ELSE Ch(s, 1) \o CollapseSpaces(SubSeq(s, 2, Len(s)))

\* function norm(s)
norm(s) == Trim(CollapseSpaces(NormChars(s)))

(***************************************************************************)
(* Cargo categorizers.                                                     *)
(***************************************************************************)
K_CONTAINER ==
    {"container", "conteiner", "tecon", "santos brasil", "btp", "ecoporto", "dp world",
     "terminal de conteiner", "terminal de container"}

K_LIQUID ==
    {"oleo", "o^leo", "combustivel", "combusti^vel", "diesel", "gasolina", "etanol",
     "alcool", "a^lcool", "nafta", "qsav", "gasoil", "gasoleo", "gaso^leo", "bunker",
     "glp", "lpg", "gnl", "lng", "metanol", "querosene", "solvente", "alamoa"}

K_BULK ==
    {"granel", "grao", "graos", "gra^os", "soja", "milho", "acucar", "ac^ucar",
     "ac^u^car", "fertiliz", "ureia", "ure^ia", "sal", "minerio", "mine^rio", "carvao",
     "carva^o", "celulose", "trigo", "farelo", "pellet", "potassio", "pota^ssio",
     "sulfato", "soda", "cimento", "clinquer", "cli^nquer", "coque", "petcoke", "sugar",
     "grain", "ore"}

\* function hasAny(hay, needles)
hasAny(hay, needles) ==
    LET H == norm(hay)
    IN  \E n \in needles : includes(H, n)

\* [goods || "", terminal || "", pier || "", agency || ""].join(" | ")
JoinBag(fields) == fields[1] \o " | " \o fields[2] \o " | " \o fields[3] \o " | " \o fields[4]

\* classifyCargo with the bulk test made first
classifyCargo_BulkFirst(fields) ==
    IF hasAny(JoinBag(fields), K_BULK) THEN "Bulk"
    ELSE IF hasAny(JoinBag(fields), K_CONTAINER) THEN "Container"
    ELSE IF hasAny(JoinBag(fields), K_LIQUID) THEN "Liquid (Oil)"
    ELSE "Other"

\* function classifyCargo(goods, terminal, pier, agency): the label
classifyCargo(fields) ==
    IF hasAny(JoinBag(fields), K_CONTAINER) THEN "Container"
    ELSE IF hasAny(JoinBag(fields), K_LIQUID) THEN "Liquid (Oil)"
    ELSE IF hasAny(JoinBag(fields), K_BULK) THEN "Bulk"
    ELSE "Other"


\* one character through toLowerCase and the removal of the marks
FoldChar(c) ==
    IF c = "^" THEN ""
    ELSE IF IndexIn(UpperCase, c) # 0 THEN Ch(LowerCase, IndexIn(UpperCase, c))
    ELSE c

RECURSIVE FoldChars(_)
FoldChars(s) == IF Len(s) = 0 THEN "" ELSE FoldChar(Ch(s, 1)) \o FoldChars(SubSeq(s, 2, Len(s)))

\* parts.filter(Boolean).join(" ")
RECURSIVE JoinParts(_)
JoinParts(parts) ==
    IF Len(parts) = 0 THEN ""
    ELSE IF parts[1] = "" THEN JoinParts(Tail(parts))
    ELSE IF JoinParts(Tail(parts)) = "" THEN parts[1]
    ELSE parts[1] \o " " \o JoinParts(Tail(parts))

\* /\bw/ (closed = FALSE) or /\bw\b/ (closed = TRUE) matches somewhere in t
WordHit(t, w, closed) ==
    \E a \in 1..(Len(t) - Len(w) + 1) :
        /\ SubSeq(t, a, a + Len(w) - 1) = w
        /\ Ch(t, a - 1) \notin WordChar
        /\ closed => Ch(t, a + Len(w)) \notin WordChar

\* /\bgas\s*liquefeit/ matches somewhere in t
GasHit(t) ==
    \E a \in 1..(Len(t) - 2) :
        /\ SubSeq(t, a, a + 2) = "gas"
        /\ Ch(t, a - 1) \notin WordChar
        /\ a + 11 + SpaceRun(t, a + 3) <= Len(t)
        /\ SubSeq(t, a + 3 + SpaceRun(t, a + 3), a + 11 + SpaceRun(t, a + 3)) = "liquefeit"

\* the words of the three regular expressions of categoryENFromText
ContainerWords == {"container", "conteiner"}

LiquidWords == {"oleo", "combustivel", "diesel", "gasolina", "etanol", "nafta", "querosene", "glp"}

BulkWords ==
    {"granel", "milho", "soja", "trigo", "sal", "acucar", "ac^ucar", "celulose", "papel",
     "pellet", "pellets", "coque", "ureia"}

\* the three regular expressions of categoryENFromText, tested on t
ContainerTest(t) == \E w \in ContainerWords : WordHit(t, w, FALSE)

LiquidTest(t) == (\E w \in LiquidWords : WordHit(t, w, TRUE)) \/ GasHit(t)

BulkTest(t) == (\E w \in BulkWords : WordHit(t, w, TRUE)) \/ WordHit(t, "fertiliz", FALSE)

\* categoryENFromText once t is computed
CategoryOfText(t) ==
    IF ContainerTest(t) THEN "Container"
    ELSE IF LiquidTest(t) THEN "Liquid (Oil)"
    ELSE IF BulkTest(t) THEN "Bulk"
    ELSE "Other"

\* function categoryENFromText(...parts)
categoryENFromText(parts) == CategoryOfText(FoldChars(JoinParts(parts)))


(***************************************************************************)
(* Cargo family: the fields the categorizers are applied to.               *)
(***************************************************************************)
MaxWords == 2

GoodsWords ==
    {"container", "xcontainer", "soja", "o^leo", "DIESEL", "santos", "brasil", "carga"}

\* the texts of n words at most
RECURSIVE GoodsTexts(_)
GoodsTexts(n) ==
    IF n = 0 THEN {""}
    ELSE GoodsTexts(n - 1)
             \cup {IF a = "" THEN w ELSE a \o " " \o w : a \in GoodsTexts(n - 1), w \in GoodsWords}

InitCargo ==
    /\ bag \in {<<g, t, "", a>> : g \in GoodsTexts(MaxWords),
                                  t \in {"", "ALAMOA", "brasil"}, a \in {"", "MSC"}}
    /\ cargoRes = NoCall
    /\ IdleDate
    /\ IdleImo
    /\ IdleLenDraft
    /\ IdleNotice
    /\ IdleHeader
    /\ IdlePage
    /\ IdleFlag
    /\ IdleRewriter
    /\ IdleRequest
    /\ IdleComponent

\* const cat = classifyCargo(goods, terminalRaw, pier, agency)
CallClassifyCargo ==
    /\ cargoRes = NoCall
    /\ cargoRes' = [fn |-> "classifyCargo", label |-> classifyCargo(bag)]
    /\ UNCHANGED <<dateVars, imoVars, lenVars, noticeVars, bag, headerVars, pageVars, flagVars, rwVars, reqVars, uiVars>>

\* const cargo_category_en = categoryENFromText(opText)
CallCategoryENFromText ==
    /\ cargoRes = NoCall
    /\ cargoRes' = [fn |-> "categoryENFromText", label |-> categoryENFromText(<<bag[1]>>)]
    /\ UNCHANGED <<dateVars, imoVars, lenVars, noticeVars, bag, headerVars, pageVars, flagVars, rwVars, reqVars, uiVars>>

NextCargo == CallClassifyCargo \/ CallCategoryENFromText

SpecCargo == InitCargo /\ [][NextCargo]_vars

(***************************************************************************)
(* Claims about the cargo categorizers.                                    *)
(***************************************************************************)
\* a keyword of the first, second, third list hits, as the categorizer applied tests it
ContainerKeywordHit ==
    IF cargoRes.fn = "classifyCargo" THEN hasAny(JoinBag(bag), K_CONTAINER)
    ELSE ContainerTest(FoldChars(bag[1]))

LiquidKeywordHit ==
    IF cargoRes.fn = "classifyCargo" THEN hasAny(JoinBag(bag), K_LIQUID)
    ELSE LiquidTest(FoldChars(bag[1]))

BulkKeywordHit ==
    IF cargoRes.fn = "classifyCargo" THEN hasAny(JoinBag(bag), K_BULK)
    ELSE BulkTest(FoldChars(bag[1]))

\* the result follows the order Container, Liquid, Bulk, Other
PriorityOrder ==
    /\ ContainerKeywordHit => cargoRes.label = "Container"
    /\ (~ContainerKeywordHit /\ LiquidKeywordHit) => cargoRes.label = "Liquid (Oil)"
    /\ (~ContainerKeywordHit /\ ~LiquidKeywordHit /\ BulkKeywordHit) =>
           cargoRes.label = "Bulk"
    /\ (~ContainerKeywordHit /\ ~LiquidKeywordHit /\ ~BulkKeywordHit) =>
           cargoRes.label = "Other"

HeaderChar(c) ==
    IF IndexIn(UpperCase, c) # 0 THEN Ch(LowerCase, IndexIn(UpperCase, c))
    ELSE IF c \in WordChar \cup {"/", " "} THEN c
    ELSE ""

RECURSIVE HeaderChars(_)
HeaderChars(s) ==
    IF Len(s) = 0 THEN "" ELSE HeaderChar(Ch(s, 1)) \o HeaderChars(SubSeq(s, 2, Len(s)))

\* function norm(s) of worker.ts 430-437
normHeader(s) == Trim(CollapseSpaces(HeaderChars(s)))

\* const map: Array<[string, string[]]>
HeaderMap ==
    << <<"ship", {"navio ship", "navio", "ship"}>>,
       <<"flag", {"bandeira flag", "bandeira", "flag"}>>,
       <<"lengthdraft", {"com len cal draft", "comprimento calado", "length draft",
                         "len draft"}>>,
       <<"nav", {"nav"}>>,
       <<"arrival", {"cheg arrival d m y", "chegada", "arrival"}>>,
       <<"notice", {"carimbo notice", "notice", "carimbo"}>>,
       <<"agency", {"agencia office", "agencia", "office", "agency"}>>,
       <<"operation", {"operac operat", "operacao", "operat", "operation"}>>,
       <<"goods", {"mercadoria goods", "mercadoria", "goods"}>>,
       <<"weight", {"peso weight", "peso", "weight"}>>,
       <<"voyage", {"viagem voyage", "viagem", "voyage"}>>,
       <<"duv", {"duv"}>>,
       <<"priority", {"p", "prioridade"}>>,
       <<"terminal", {"terminal"}>>,
       <<"imo", {"imo"}>> >>

\* the entries of the map one of whose needles n includes
HeaderHits(n) == {i \in 1..Len(HeaderMap) : \E n2 \in HeaderMap[i][2] : includes(n, n2)}

\* the loop of headerKey over the map: the first entry that hits
FirstHit(n) ==
    IF HeaderHits(n) = {} THEN Null
    ELSE Some(HeaderMap[CHOOSE i \in HeaderHits(n) : \A j \in HeaderHits(n) : i <= j][1])

\* function headerKey(h)
headerKey(h) == FirstHit(normHeader(h))


(***************************************************************************)
(* Header family: the labels headerKey is applied to.                      *)
(***************************************************************************)
HeaderCores ==
    {"", "Navio", "NAVIO/SHIP", "Bandeira", "Length/Draft", "Length Draft",
     "Comprimento Calado", "Nav", "Chegada", "Carimbo", "Age^ncia", "Operac^a^o", "goods",
     "Peso", "Viagem", "DUV", "DUV Class", "P", "Terminal", "IMO", "xyz"}

HeaderLabels ==
    {pre \o core \o suf : pre \in {"", "Col ", "x-"}, core \in HeaderCores,
                          suf \in {"", " no", "."}}

InitHeader ==
    /\ header \in HeaderLabels
    /\ headerRes = NoCall
    /\ IdleDate
    /\ IdleImo
    /\ IdleLenDraft
    /\ IdleNotice
    /\ IdleCargo
    /\ IdlePage
    /\ IdleFlag
    /\ IdleRewriter
    /\ IdleRequest
    /\ IdleComponent

\* const keys = headersList.map((h) => headerKey(h) || `col_${norm(h)}`), one label
CallHeaderKey ==
    /\ headerRes = NoCall
    /\ headerRes' = [fn |-> "headerKey", key |-> headerKey(header)]
    /\ UNCHANGED <<dateVars, imoVars, lenVars, noticeVars, cargoVars, header, pageVars, flagVars, rwVars, reqVars, uiVars>>

NextHeader == CallHeaderKey

SpecHeader == InitHeader /\ [][NextHeader]_vars

(***************************************************************************)
(* Claims about the column mapper.                                         *)
(***************************************************************************)
\* the label, normalized as the specification says (lower case, no
\* diacritics, other characters read as blanks), holds a synonym of entry i
HoldsSynonym(label, i) == \E n2 \in HeaderMap[i][2] : includes(norm(label), n2)

\* C16: a label that holds a synonym of one semantic key, and of no other,
\* is mapped to that key whatever its case, diacritics and surrounding
\* words; a label that holds "terminal" is mapped to terminal and the label
\* "Length/Draft" to lengthdraft.
C16_SynonymGivesKey ==
    headerRes.fn = "headerKey" =>
        /\ \A i \in 1..Len(HeaderMap) :
               (/\ HoldsSynonym(header, i)
                /\ \A j \in 1..Len(HeaderMap) : j # i => ~HoldsSynonym(header, j))
                   => headerRes.key = Some(HeaderMap[i][1])
        /\ includes(norm(header), "terminal") => headerRes.key = Some("terminal")
        /\ header = "Length/Draft" => headerRes.key = Some("lengthdraft")


(***************************************************************************)
(* Flag translators.  The keys of the tables are written as the source     *)
(* writes them: a key with an accented letter carries its mark ("^").      *)
(***************************************************************************)
\* FLAG_PT_EN of worker.ts
FLAG_PT_EN ==
    {<<"chipre", "Cyprus">>, <<"panama", "Panama">>, <<"liberiana", "Liberia">>,
     <<"liberia", "Liberia">>, <<"maltesa", "Malta">>, <<"bahamas", "Bahamas">>,
     <<"ilhas marshall", "Marshall Islands">>, <<"antiguana", "Antigua and Barbuda">>,
     <<"brasileira", "Brazil">>, <<"singapurense", "Singapore">>, <<"italiana", "Italy">>,
     <<"saudita", "Saudi Arabia">>, <<"uruguaia", "Uruguay">>, <<"argentina", "Argentina">>,
     <<"paraguaia", "Paraguay">>, <<"caboverdeana", "Cabo Verde">>, <<"cabo", "Cape Verde">>}

\* FLAG_PT_EN of part_001
FLAG_PT_EN_1 ==
    {<<"brasil", "Brazil">>, <<"argentina", "Argentina">>, <<"uruguai", "Uruguay">>,
     <<"paraguai", "Paraguay">>, <<"bolivia", "Bolivia">>, <<"chile", "Chile">>,
     <<"peru", "Peru">>, <<"colombia", "Colombia">>, <<"venezuela", "Venezuela">>,
     <<"equador", "Ecuador">>, <<"suriname", "Suriname">>, <<"guiana", "Guyana">>,
     <<"chipre", "Cyprus">>, <<"panama", "Panama">>, <<"liberia", "Liberia">>,
     <<"malta", "Malta">>, <<"bahamas", "Bahamas">>,
     <<"ilhas marshall", "Marshall Islands">>,
     <<"antigua e barbuda", "Antigua and Barbuda">>, <<"hong kong", "Hong Kong">>,
     <<"china", "China">>, <<"singapura", "Singapore">>, <<"coreia do sul", "South Korea">>,
     <<"coreia, republica da", "South Korea">>, <<"correia do sul", "South Korea">>,
     <<"grecia", "Greece">>, <<"gre^cia", "Greece">>, <<"italia", "Italy">>,
     <<"espanha", "Spain">>, <<"portugal", "Portugal">>, <<"franca", "France">>,
     <<"franc^a", "France">>, <<"reino unido", "United Kingdom">>,
     <<"alemanha", "Germany">>, <<"pai^ses baixos", "Netherlands">>,
     <<"paises baixos", "Netherlands">>, <<"belgica", "Belgium">>,
     <<"be^lgica", "Belgium">>, <<"noruega", "Norway">>, <<"dinamarca", "Denmark">>,
     <<"sue^cia", "Sweden">>, <<"suecia", "Sweden">>, <<"finlandia", "Finland">>,
     <<"russia", "Russia">>, <<"turquia", "Turkey">>, <<"india", "India">>,
     <<"indonesia", "Indonesia">>, <<"malasia", "Malaysia">>, <<"mala^sia", "Malaysia">>,
     <<"emirados arabes unidos", "United Arab Emirates">>,
     <<"emirados a^rabes unidos", "United Arab Emirates">>,
     <<"arabia saudita", "Saudi Arabia">>, <<"ara^bia saudita", "Saudi Arabia">>,
     <<"nigeria", "Nigeria">>, <<"angola", "Angola">>, <<"africa do sul", "South Africa">>,
     <<"a^frica do sul", "South Africa">>, <<"bahrein", "Bahrain">>, <<"kuwait", "Kuwait">>,
     <<"qatar", "Qatar">>, <<"ira^", "Iran">>, <<"ira", "Iran">>, <<"iraque", "Iraq">>,
     <<"holanda", "Netherlands">>, <<"egito", "Egypt">>, <<"marrocos", "Morocco">>}

\* FLAG_PT_EN of part_002
FLAG_PT_EN_2 ==
    {<<"chipre", "Cyprus">>, <<"cipriota", "Cyprus">>, <<"panama", "Panama">>,
     <<"panamenha", "Panama">>, <<"liberia", "Liberia">>, <<"liberiana", "Liberia">>,
     <<"malta", "Malta">>, <<"maltesa", "Malta">>,
     <<"ilhas marshall", "Marshall Islands">>, <<"marshall", "Marshall Islands">>,
     <<"portugal", "Portugal">>, <<"portugues", "Portugal">>,
     <<"portuguesa", "Portugal">>, <<"franca", "France">>, <<"francesa", "France">>,
     <<"espanha", "Spain">>, <<"espanhola", "Spain">>, <<"italia", "Italy">>,
     <<"italiana", "Italy">>, <<"alemanha", "Germany">>, <<"alema^", "Germany">>,
     <<"reino unido", "United Kingdom">>, <<"inglaterra", "United Kingdom">>,
     <<"uk", "United Kingdom">>, <<"paises baixos", "Netherlands">>,
     <<"pai^ses baixos", "Netherlands">>, <<"holanda", "Netherlands">>,
     <<"belgica", "Belgium">>, <<"be^lgica", "Belgium">>, <<"grecia", "Greece">>,
     <<"grega", "Greece">>, <<"noruega", "Norway">>, <<"norueguesa", "Norway">>,
     <<"dinamarca", "Denmark">>, <<"suecia", "Sweden">>, <<"sue^cia", "Sweden">>,
     <<"finlandia", "Finland">>, <<"brasil", "Brazil">>, <<"brasileira", "Brazil">>,
     <<"bahamas", "Bahamas">>, <<"bahamense", "Bahamas">>,
     <<"estados unidos", "United States">>, <<"eua", "United States">>,
     <<"usa", "United States">>, <<"canada", "Canada">>, <<"canada^", "Canada">>,
     <<"mexico", "Mexico">>, <<"me^xico", "Mexico">>, <<"argentina", "Argentina">>,
     <<"uruguai", "Uruguay">>, <<"paraguai", "Paraguay">>, <<"china", "China">>,
     <<"hong kong", "Hong Kong">>, <<"taiwan", "Taiwan">>, <<"japao", "Japan">>,
     <<"japa^o", "Japan">>, <<"coreia do sul", "South Korea">>,
     <<"coreia, republica da", "South Korea">>, <<"coreia", "South Korea">>,
     <<"singapura", "Singapore">>, <<"singapurense", "Singapore">>,
     <<"india", "India">>, <<"indiana", "India">>, <<"indonesia", "Indonesia">>,
     <<"malasia", "Malaysia">>, <<"mala^sia", "Malaysia">>,
     <<"emirados arabes unidos", "United Arab Emirates">>,
     <<"emirados a^rabes unidos", "United Arab Emirates">>,
     <<"arabia saudita", "Saudi Arabia">>, <<"ara^bia saudita", "Saudi Arabia">>}

\* table[key], undefined being null
Lookup(table, key) ==
    IF \E p \in table : p[1] = key
    THEN Some((CHOOSE p \in table : p[1] = key)[2])
    ELSE Null

\* toEnglishFlag of worker.ts and of part_001: FLAG_PT_EN[key] || flagPt
toEnglishFlagIn(table, flagPt) ==
    IF flagPt = "" THEN Null
    ELSE IF Lookup(table, norm(flagPt)) # Null THEN Lookup(table, norm(flagPt))
    ELSE Some(flagPt)

toEnglishFlag(flagPt) == toEnglishFlagIn(FLAG_PT_EN, flagPt)

toEnglishFlag_1(flagPt) == toEnglishFlagIn(FLAG_PT_EN_1, flagPt)

\* s.toLowerCase(), for texts of ASCII characters and marks; the text is
\* halved so that a long one (a joined row) stays shallow to evaluate
RECURSIVE toLowerCase(_)
toLowerCase(s) ==
    IF Len(s) = 0 THEN ""
    ELSE IF Len(s) = 1
         THEN (IF IndexIn(UpperCase, s) = 0 THEN s ELSE Ch(LowerCase, IndexIn(UpperCase, s)))
    ELSE toLowerCase(SubSeq(s, 1, Len(s) \div 2))
             \o toLowerCase(SubSeq(s, Len(s) \div 2 + 1, Len(s)))

\* /hong\s*kong/ and /ilhas?\s*marshall/: a, blanks or none, b, somewhere in n
SpacedHit(n, a, b) ==
    \E i \in 1..(Len(n) - Len(a) + 1) :
        /\ SubSeq(n, i, i + Len(a) - 1) = a
        /\ i + Len(a) + SpaceRun(n, i + Len(a)) + Len(b) - 1 <= Len(n)
        /\ SubSeq(n, i + Len(a) + SpaceRun(n, i + Len(a)),
                  i + Len(a) + SpaceRun(n, i + Len(a)) + Len(b) - 1) = b

\* /\bindian(?!o)/
IndianHit(n) ==
    \E i \in 1..(Len(n) - 5) :
        /\ SubSeq(n, i, i + 5) = "indian"
        /\ Ch(n, i - 1) \notin WordChar
        /\ Ch(n, i + 6) # "o"

\* the heuristics of toFlagEN, in the order of the source
Heuristic(n) ==
    IF WordHit(n, "portug", FALSE) THEN Some("Portugal")
    ELSE IF WordHit(n, "norueg", FALSE) THEN Some("Norway")
    ELSE IF WordHit(n, "panamen", FALSE) THEN Some("Panama")
    ELSE IF WordHit(n, "baham", FALSE) THEN Some("Bahamas")
    ELSE IF IndianHit(n) THEN Some("India")
    ELSE IF WordHit(n, "chipr", FALSE) THEN Some("Cyprus")
    ELSE IF SpacedHit(n, "hong", "kong") THEN Some("Hong Kong")
    ELSE IF WordHit(n, "liberi", FALSE) THEN Some("Liberia")
    ELSE IF WordHit(n, "malte", FALSE) \/ WordHit(n, "malta", TRUE) THEN Some("Malta")
    ELSE IF WordHit(n, "brasil", FALSE) \/ WordHit(n, "brasileir", FALSE) THEN Some("Brazil")
    ELSE IF \/ WordHit(n, "marshall", FALSE)
            \/ SpacedHit(n, "ilha", "marshall") \/ SpacedHit(n, "ilhas", "marshall")
         THEN Some("Marshall Islands")
    ELSE Null

\* raw.charAt(0).toUpperCase() + raw.slice(1).toLowerCase()
Capitalize(raw) == toUpperCase(Ch(raw, 1)) \o toLowerCase(SubSeq(raw, 2, Len(raw)))

\* toFlagEN after n = norm(raw)
FlagOfNorm(raw, n) ==
    IF n = "" THEN "-"
    ELSE IF Lookup(FLAG_PT_EN_2, n) # Null THEN Val(Lookup(FLAG_PT_EN_2, n))
    ELSE IF Heuristic(n) # Null THEN Val(Heuristic(n))
    ELSE IF raw # "" THEN Capitalize(raw)
    ELSE "-"

toFlagEN(raw) == FlagOfNorm(raw, norm(raw))


(***************************************************************************)
(* Flag family: the flag texts the translators are applied to.             *)
(***************************************************************************)
\* s without its marks
RECURSIVE StripMarks(_)
StripMarks(s) ==
    IF Len(s) = 0 THEN ""
    ELSE (IF Ch(s, 1) = "^" THEN "" ELSE Ch(s, 1)) \o StripMarks(SubSeq(s, 2, Len(s)))

FlagKeys == {p[1] : p \in FLAG_PT_EN \cup FLAG_PT_EN_1 \cup FLAG_PT_EN_2}

\* every key as written, in upper case and without its marks, and names of
\* no table
FlagTexts ==
    FlagKeys \cup {toUpperCase(k) : k \in FlagKeys} \cup {StripMarks(k) : k \in FlagKeys}
        \cup {"", "tuvalu", "Tuvalu", "TUVALU", "turca", "indiano", "indianas", "hong  kong",
              "HongKong", "Portuguese", "ilha marshall", "Ilhas Marshall (RMI)",
              "Sa^o Tome^"}

InitFlag ==
    /\ flag \in FlagTexts
    /\ flagRes = NoCall
    /\ IdleDate
    /\ IdleImo
    /\ IdleLenDraft
    /\ IdleNotice
    /\ IdleCargo
    /\ IdleHeader
    /\ IdlePage
    /\ IdleRewriter
    /\ IdleRequest
    /\ IdleComponent

\* const flagEn = toEnglishFlag(flagPt)                        (worker.ts 278)
CallToEnglishFlag ==
    /\ flagRes = NoCall
    /\ flagRes' = [fn |-> "toEnglishFlag", en |-> toEnglishFlag(flag)]
    /\ UNCHANGED <<dateVars, imoVars, lenVars, noticeVars, cargoVars, headerVars, pageVars,
                   flag, rwVars, reqVars, uiVars>>

\* const flagEn = toEnglishFlag(flagPt)                         (part_001 435)
CallToEnglishFlag_1 ==
    /\ flagRes = NoCall
    /\ flagRes' = [fn |-> "toEnglishFlag_1", en |-> toEnglishFlag_1(flag)]
    /\ UNCHANGED <<dateVars, imoVars, lenVars, noticeVars, cargoVars, headerVars, pageVars,
                   flag, rwVars, reqVars, uiVars>>

\* const flag_en = toFlagEN(flagPT)                             (part_002 288)
CallToFlagEN ==
    /\ flagRes = NoCall
    /\ flagRes' = [fn |-> "toFlagEN", en |-> Some(toFlagEN(flag))]
    /\ UNCHANGED <<dateVars, imoVars, lenVars, noticeVars, cargoVars, headerVars, pageVars,
                   flag, rwVars, reqVars, uiVars>>

NextFlag == CallToEnglishFlag \/ CallToEnglishFlag_1 \/ CallToFlagEN

SpecFlag == InitFlag /\ [][NextFlag]_vars

(***************************************************************************)
(* Claims about the flag translators.                                      *)
(***************************************************************************)
\* the table of the translator fn
TableOf(fn) ==
    IF fn = "toEnglishFlag" THEN FLAG_PT_EN
    ELSE IF fn = "toEnglishFlag_1" THEN FLAG_PT_EN_1
    ELSE FLAG_PT_EN_2

\* the normalized text is no key of the translator's table and, where the
\* translator has heuristics, none of them matches it
NoFlagMatch(fn, text) ==
    /\ Lookup(TableOf(fn), norm(text)) = Null
    /\ fn = "toFlagEN" => Heuristic(norm(text)) = Null

\* C19: for a non-empty flag text that matches no table entry and no
\* heuristic, flag_en is not null and is the text with its first letter in
\* upper case (so never the untouched lower-case original).
C19_FallbackIsCapitalized ==
    (flagRes.fn # "none" /\ flag # "" /\ NoFlagMatch(flagRes.fn, flag)) =>
        /\ flagRes.en # Null
        /\ Ch(Val(flagRes.en), 1) = toUpperCase(Ch(flag, 1))
        /\ toLowerCase(Val(flagRes.en)) = toLowerCase(flag)

\* the text is the key in some letter case, with or without the key's marks
SameName(text, key) ==
    \/ toLowerCase(text) = key
    \/ StripMarks(toLowerCase(text)) = StripMarks(key)

\* C20: a flag text equal to a key of the translator's table, in any letter
\* case and with or without its diacritics, is translated to the English
\* value of that key.
C20_EveryKeyIsReachable ==
    flagRes.fn # "none" =>
        \A p \in TableOf(flagRes.fn) : SameName(flag, p[1]) => flagRes.en = Some(p[2])


(***************************************************************************)
(* The handlers.  A page is the sequence of its tables; a table is its     *)
(* header labels (the th cells of its thead row, <<>> when it has none)    *)
(* and its body rows (the td cells of each tbody row), each cell being the *)
(* trimmed text the extraction gives it.                                   *)
(***************************************************************************)
\* now.getFullYear() while the page is handled
PageYear == 2025

\* the rows the selector "table tbody tr" meets, in document order
RECURSIVE AllRows(_)
AllRows(p) == IF Len(p) = 0 THEN <<>> ELSE p[1].body \o AllRows(Tail(p))

\* the labels the selector "table thead tr th" meets, in document order
RECURSIVE AllHeaders(_)
AllHeaders(p) == IF Len(p) = 0 THEN <<>> ELSE p[1].head \o AllHeaders(Tail(p))

\* /[A-Za-z]/.test(col5) && !/^\d[\d\- ]*$/.test(col5)
IsOperationText(col5) ==
    /\ \E i \in 1..Len(col5) : Ch(col5, i) \in Letter
    /\ ~(/\ Ch(col5, 1) \in Digit
         /\ \A i \in 2..Len(col5) : Ch(col5, i) \in Digit \cup {"-", " "})

\* the record worker.ts makes of a usable row (254-310)
ShipOfCells(row) ==
    [imo |-> extractImo(Cell(row, 14), row),
     ship |-> OrNull(Cell(row, 0)),
     flag |-> OrNull(Cell(row, 1)),
     flag_en |-> toEnglishFlag(Cell(row, 1)),
     arrival_text |-> OrNull(Cell(row, 4)),
     arrival_iso |-> parsePt(Cell(row, 4), PageYear).iso,
     arrival_ts |-> parsePt(Cell(row, 4), PageYear).ts,
     notice_code |-> OrNull(Cell(row, 7)),
     notice_en |-> translateNotice(Cell(row, 7)),
     agency |-> OrNull(Cell(row, 6)),
     pier |-> OrNull(Cell(row, 13)),
     goods |-> OrNull(Cell(row, 8)),
     length_m |-> parseLenDraft(Cell(row, 2)).length,
     draft_m |-> parseLenDraft(Cell(row, 2)).draft,
     nav |-> OrNull(Cell(row, 3)),
     operation |-> IF IsOperationText(Cell(row, 5)) THEN Some(Cell(row, 5)) ELSE Null,
     weight |-> OrNull(Cell(row, 9)),
     voyage |-> OrNull(Cell(row, 10)),
     duv |-> OrNull(Cell(row, 11)),
     duv_class |-> OrNull(Cell(row, 12)),
     terminal |-> OrNull(Cell(row, 14)),
     cargo_category_en |->
         classifyCargo(<<Cell(row, 8), Cell(row, 14), Cell(row, 13), Cell(row, 6)>>),
     raw |-> row]

\* usable.map(...) of worker.ts
ShipsV1(rs) == [i \in DOMAIN rs |-> ShipOfCells(rs[i])]

\* the first handler of worker.ts: every row of every table, the usable ones mapped
FetchV1(p) == ShipsV1(SelectSeq(AllRows(p), usable))

\* headerKey(h) || `col_${norm(h)}`
KeyOfHeader(h) == IF headerKey(h) # Null THEN Val(headerKey(h)) ELSE "col_" \o normHeader(h)

\* const keys = headersList.map(...)
Keys(headersList) == [i \in DOMAIN headersList |-> KeyOfHeader(headersList[i])]

\* keys[i] || `c${i}`
KeyAt(keys, i) == IF i < Len(keys) THEN keys[i + 1] ELSE "c" \o String(i)

\* row[k] || "" after cells.forEach((val, i) => (row[keys[i] || `c${i}`] = val.trim())):
\* the last cell whose key is k has overwritten the earlier ones
RowValue(keys, row, k) ==
    LET I == {i \in 0..(Len(row) - 1) : KeyAt(keys, i) = k}
    IN  IF I = {} THEN "" ELSE Trim(Cell(row, CHOOSE i \in I : \A j \in I : j <= i))

\* for (const v of cells) { const m = v.match(/\b\d{7}\b/); if (m) ... break }
RECURSIVE ScanImo(_)
ScanImo(row) ==
    IF Len(row) = 0 THEN Null
    ELSE IF MatchSeven(row[1]) # Null THEN MatchSeven(row[1])
    ELSE ScanImo(Tail(row))

\* the imo of the header-aware handler (worker.ts 572-586)
ImoOfRow(imoText, row) == IF imoText # "" THEN MatchSeven(imoText) ELSE ScanImo(row)

\* the record the header-aware handler makes of a row (547-610)
ShipOfRow(keys, row) ==
    [imo |-> ImoOfRow(RowValue(keys, row, "imo"), row),
     ship |-> OrNull(RowValue(keys, row, "ship")),
     flag |-> OrNull(RowValue(keys, row, "flag")),
     length_m |-> lengthDraftInline(RowValue(keys, row, "lengthdraft")).length,
     draft_m |-> lengthDraftInline(RowValue(keys, row, "lengthdraft")).draft,
     nav |-> OrNull(RowValue(keys, row, "nav")),
     arrival_text |-> OrNull(RowValue(keys, row, "arrival")),
     arrival_iso |-> parsePtBrDate(RowValue(keys, row, "arrival"), PageYear).iso,
     arrival_ts |-> parsePtBrDate(RowValue(keys, row, "arrival"), PageYear).ts,
     notice_code |-> OrNull(RowValue(keys, row, "notice")),
     notice_en |-> translateNoticeV2(RowValue(keys, row, "notice")),
     agency |-> OrNull(RowValue(keys, row, "agency")),
     operation |-> OrNull(RowValue(keys, row, "operation")),
     goods |-> OrNull(RowValue(keys, row, "goods")),
     weight |-> OrNull(RowValue(keys, row, "weight")),
     voyage |-> OrNull(RowValue(keys, row, "voyage")),
     duv |-> OrNull(RowValue(keys, row, "duv")),
     priority |-> OrNull(RowValue(keys, row, "priority")),
     terminal |-> OrNull(RowValue(keys, row, "terminal")),
     raw |-> row]

\* (a.arrival_ts ?? Infinity) - (b.arrival_ts ?? Infinity) < 0
\* t is before u, for two time values
TimeBefore(t, u) == t.min < u.min \/ (t.min = u.min /\ t.ms < u.ms)

Earlier(a, b) ==
    /\ a.arrival_ts # Null
    /\ b.arrival_ts = Null \/ TimeBefore(Val(a.arrival_ts), Val(b.arrival_ts))

\* x put into the sorted list s after the records that are not later than it
RECURSIVE InsertShip(_, _)
InsertShip(x, s) ==
    IF Len(s) = 0 THEN <<x>>
    ELSE IF Earlier(x, s[1]) THEN <<x>> \o s
    ELSE <<s[1]>> \o InsertShip(x, Tail(s))

\* ships.sort(...): Array.prototype.sort is stable
RECURSIVE SortShips(_)
SortShips(s) ==
    IF Len(s) = 0 THEN <<>>
    ELSE InsertShip(s[Len(s)], SortShips(SubSeq(s, 1, Len(s) - 1)))

\* rows.filter((r) => r.length > 1)
LongerThanOne(r) == Len(r) > 1

ShipsV2(keys, rs) == [i \in DOMAIN rs |-> ShipOfRow(keys, rs[i])]

\* the header-aware handler of worker.ts
FetchV2(p) == SortShips(ShipsV2(Keys(AllHeaders(p)), SelectSeq(AllRows(p), LongerThanOne)))

\* the <tr> elements of a table: its header row, when it has one, then its body rows
TableRows(t) == (IF Len(t.head) = 0 THEN <<>> ELSE <<t.head>>) \o t.body

\* every <tr> of the page, in document order
RECURSIVE AllTr(_)
AllTr(p) == IF Len(p) = 0 THEN <<>> ELSE TableRows(p[1]) \o AllTr(Tail(p))

\* cells.join("|")
RECURSIVE JoinBar(_)
JoinBar(row) ==
    IF Len(row) = 0 THEN ""
    ELSE IF Len(row) = 1 THEN row[1]
    ELSE row[1] \o "|" \o JoinBar(Tail(row))

\* /a.*b/.test(s)
ThenHit(s, a, b) ==
    \E i \in 1..(Len(s) - Len(a) + 1) :
        /\ SubSeq(s, i, i + Len(a) - 1) = a
        /\ includes(SubSeq(s, i + Len(a), Len(s)), b)

\* /navio.*bandeira|ship.*flag/.test(join)
IsHeaderJoin(join) == ThenHit(join, "navio", "bandeira") \/ ThenHit(join, "ship", "flag")

\* cells.length >= 8 && !/navio.*bandeira|ship.*flag/.test(join)
KeptRow(row) == Len(row) >= 8 /\ ~IsHeaderJoin(toLowerCase(JoinBar(row)))

\* function extractRows(html) of part_002
extractRows(p) == SelectSeq(AllTr(p), KeptRow)

\* function mapRowToShip(cells) of part_002, without its _raw
mapRowToShip(row) ==
    [imo |-> mapRowToShipImo(row),
     ship |-> OrNull(Cell(row, 0)),
     flag_en |-> Some(toFlagEN(Cell(row, 1))),
     arrival_text |-> OrNull(Cell(row, 4)),
     arrival_iso |-> parseBRDateTimeToISO(Cell(row, 4)).iso,
     arrival_ts |-> parseBRDateTimeToISO(Cell(row, 4)).ts,
     notice_en |-> noticeToEN(RemoveSpaces(toUpperCase(Cell(row, 5)))),
     agency |-> OrNull(Cell(row, 6)),
     pier |-> OrNull(Cell(row, 12)),
     cargo_category_en |-> categoryENFromText(<<Cell(row, 7)>>),
     length_m |-> parseLenDraftCell(Cell(row, 2)).length,
     draft_m |-> parseLenDraftCell(Cell(row, 2)).draft,
     weight |-> OrNull(Cell(row, 8)),
     voyage |-> OrNull(Cell(row, 9)),
     duv |-> OrNull(Cell(row, 10)),
     duv_class |-> OrNull(Cell(row, 11))]

\* the record with _raw: cells, as ?includeRaw=1 leaves it
WithRaw(rec, row) ==
    [k \in DOMAIN rec \cup {"_raw"} |-> IF k = "_raw" THEN row ELSE rec[k]]

ShipsOfRows(rs, includeRaw) ==
    [i \in DOMAIN rs |->
        IF includeRaw THEN WithRaw(mapRowToShip(rs[i]), rs[i]) ELSE mapRowToShip(rs[i])]

\* the handler of part_002
FetchRegex(p, includeRaw) == ShipsOfRows(extractRows(p), includeRaw)


(***************************************************************************)
(* Page family: the pages the handlers are applied to.                     *)
(***************************************************************************)
MaxCells == 16

\* the header labels of the line-up table
FullHead ==
    <<"Navio Ship", "Bandeira Flag", "Com Len Cal Draft", "Nav", "Cheg Arrival d/m/y",
      "Carimbo Notice", "Age^ncia Office", "Operac Operat", "Mercadoria Goods",
      "Peso Weight", "Viagem Voyage", "DUV", "P", "Terminal", "IMO">>

\* one row of it, every cell with a text of its own
BaseRow ==
    <<"MSC ANNA", "Liberiana", "183/10,5", "Long", "16/09/2025 08:00", "EMB",
      "AGENCIA X", "DESCARGA", "SOJA", "1200", "V123", "4567", "B", "ALAMOA", "9321483">>

BaseCell(i) == IF i <= Len(BaseRow) THEN BaseRow[i] ELSE "x" \o String(i)

\* the first n cells of the row, k of them blank from the ninth on
RowOf(n, k) == [i \in 1..n |-> IF i >= 9 /\ i < 9 + k THEN "" ELSE BaseCell(i)]

PageRows ==
    {RowOf(n, k) : n \in {1, 2, 8} \cup 11..MaxCells, k \in {0}}
        \cup {RowOf(n, k) : n \in 11..MaxCells, k \in {1}}
        \cup {RowOf(n, k) : n \in 12..MaxCells, k \in {4}}
        \cup {RowOf(n, k) : n \in 13..MaxCells, k \in {5}}

\* the header row with a "DUV Class" column next to the "DUV" column
ClassHead == [FullHead EXCEPT ![13] = "DUV Class"]

\* the line-up table, with and without its header row
MainTables ==
    {[head |-> h, body |-> <<r>>] : h \in {<<>>, FullHead}, r \in PageRows}
        \cup {[head |-> ClassHead, body |-> <<RowOf(Len(ClassHead), 0)>>]}

\* a row of another table, as wide as the widest row and arriving earlier
WideRow == [i \in 1..MaxCells |-> IF i = 5 THEN "15/09/2025 08:00" ELSE "w" \o String(i)]

\* the other tables of the page: a legend, a wide table without headers and
\* a short table with two recognized headers
SideTables ==
    {[head |-> <<"Legenda", "Descric^a^o">>, body |-> << <<"EMB", "Embarque">> >>],
     [head |-> <<>>, body |-> <<WideRow>>],
     [head |-> <<"Navio", "Terminal">>, body |-> << <<"MSC ANNA", "ALAMOA">> >>]}

Pages ==
    {<<m>> : m \in MainTables}
        \cup {<<t, m>> : t \in SideTables, m \in MainTables}
        \cup {<<m, t>> : t \in SideTables, m \in MainTables}

InitPage ==
    /\ page \in Pages
    /\ ships = NoCall
    /\ IdleDate
    /\ IdleImo
    /\ IdleLenDraft
    /\ IdleNotice
    /\ IdleCargo
    /\ IdleHeader
    /\ IdleFlag
    /\ IdleRewriter
    /\ IdleRequest
    /\ IdleComponent

\* the first handler of worker.ts (219-310)
CallFetchV1 ==
    /\ ships = NoCall
    /\ ships' = [fn |-> "FetchV1", ships |-> FetchV1(page)]
    /\ UNCHANGED <<dateVars, imoVars, lenVars, noticeVars, cargoVars, headerVars, flagVars,
                   page, rwVars, reqVars, uiVars>>

\* the header-aware handler of worker.ts (505-622); keysDetected is in its payload
CallFetchV2 ==
    /\ ships = NoCall
    /\ ships' = [fn |-> "FetchV2", ships |-> FetchV2(page), keys |-> Keys(AllHeaders(page))]
    /\ UNCHANGED <<dateVars, imoVars, lenVars, noticeVars, cargoVars, headerVars, flagVars,
                   page, rwVars, reqVars, uiVars>>

\* the handler of part_002 (347-357), asked with or without ?includeRaw=1
CallFetchRegex ==
    /\ ships = NoCall
    /\ \E includeRaw \in BOOLEAN :
           ships' = [fn |-> "FetchRegex", ships |-> FetchRegex(page, includeRaw)]
    /\ UNCHANGED <<dateVars, imoVars, lenVars, noticeVars, cargoVars, headerVars, flagVars,
                   page, rwVars, reqVars, uiVars>>

NextPage == CallFetchV1 \/ CallFetchV2 \/ CallFetchRegex

SpecPage == InitPage /\ [][NextPage]_vars


(***************************************************************************)
(* Claims about the row filter, the table selector and the positional      *)
(* mapping.                                                                *)
(***************************************************************************)
\* how many rows of the sequence have 12 non-blank cells or more
RECURSIVE CountKept(_)
CountKept(rs) ==
    IF Len(rs) = 0 THEN 0
    ELSE (IF NonEmpty(rs[1]) >= 12 THEN 1 ELSE 0) + CountKept(Tail(rs))

\* C15: on a page of one table, a body row becomes a record if and only if
\* 12 of its cells or more are non-blank, whatever its number of cells: there
\* are as many records as such rows.
C15_TwelveNonBlankCells ==
    (ships.fn # "none" /\ Len(page) = 1) =>
        Len(ships.ships) = CountKept(page[1].body)

\* the header cells of the table that headerKey recognizes
RecognizedHeaders(t) == Cardinality({i \in DOMAIN t.head : headerKey(t.head[i]) # Null})

\* the width of the table: the cells of its longest row
Width(t) ==
    LET W == {Len(t.head)} \cup {Len(t.body[i]) : i \in DOMAIN t.body}
    IN  CHOOSE w \in W : \A v \in W : v <= w

\* table a is preferred to table b: more recognized headers, then wider
Preferred(a, b) ==
    \/ RecognizedHeaders(a) > RecognizedHeaders(b)
    \/ RecognizedHeaders(a) = RecognizedHeaders(b) /\ Width(a) > Width(b)

\* the tables of the page no other table is preferred to
BestTables(p) == {i \in DOMAIN p : \A j \in DOMAIN p : ~Preferred(p[j], p[i])}

\* the cells a record was made of, for the records that carry them
RawOf(rec) == IF "raw" \in DOMAIN rec THEN rec.raw ELSE rec._raw

\* C17: every record comes from a row of one selected table, the table with
\* the most recognized headers and, among those, the widest; and the column
\* map is made of the header labels of that table only.
C17_OneTableOnly ==
    ships.fn \in {"FetchV1", "FetchV2"} =>
        \E i \in BestTables(page) :
            /\ \A r \in DOMAIN ships.ships :
                   \E j \in DOMAIN page[i].body : RawOf(ships.ships[r]) = page[i].body[j]
            /\ ships.fn = "FetchV2" => ships.keys = Keys(page[i].head)

\* the field k of the record, when the record has it, is the text of cell i
TakenFrom(rec, k, row, i) == k \in DOMAIN rec => rec[k] = OrNull(Cell(row, i))

\* C18: a page of one table without header row and one row of 15 non-blank
\* cells or more gives one record whose ship, flag, nav, arrival, notice,
\* agency, operation, goods, weight, voyage, duv, duv class, pier and
\* terminal are the cells 0, 1, 3, 4, 5, 6, 7, 8, 9, 10, 11, 12, 13 and 14.
C18_PositionalLayout ==
    (/\ ships.fn # "none"
     /\ Len(page) = 1
     /\ Len(page[1].head) = 0
     /\ Len(page[1].body) = 1
     /\ NonEmpty(page[1].body[1]) >= 15) =>
        /\ Len(ships.ships) = 1
        /\ TakenFrom(ships.ships[1], "ship", page[1].body[1], 0)
        /\ TakenFrom(ships.ships[1], "flag", page[1].body[1], 1)
        /\ TakenFrom(ships.ships[1], "nav", page[1].body[1], 3)
        /\ TakenFrom(ships.ships[1], "arrival_text", page[1].body[1], 4)
        /\ TakenFrom(ships.ships[1], "notice_code", page[1].body[1], 5)
        /\ TakenFrom(ships.ships[1], "agency", page[1].body[1], 6)
        /\ TakenFrom(ships.ships[1], "operation", page[1].body[1], 7)
        /\ TakenFrom(ships.ships[1], "goods", page[1].body[1], 8)
        /\ TakenFrom(ships.ships[1], "weight", page[1].body[1], 9)
        /\ TakenFrom(ships.ships[1], "voyage", page[1].body[1], 10)
        /\ TakenFrom(ships.ships[1], "duv", page[1].body[1], 11)
        /\ TakenFrom(ships.ships[1], "duv_class", page[1].body[1], 12)
        /\ TakenFrom(ships.ships[1], "pier", page[1].body[1], 13)
        /\ TakenFrom(ships.ships[1], "terminal", page[1].body[1], 14)


(***************************************************************************)
(* More claims about the date parsers.                                     *)
(***************************************************************************)
\* the text with "/" for every "-" and without the "h" that follows a digit
\* or the blanks after a digit
RECURSIVE SlashForm(_, _)
SlashForm(t, afterDigit) ==
    IF Len(t) = 0 THEN ""
    ELSE IF Ch(t, 1) = "-" THEN "/" \o SlashForm(SubSeq(t, 2, Len(t)), FALSE)
    ELSE IF Ch(t, 1) = "h" /\ afterDigit THEN SlashForm(SubSeq(t, 2, Len(t)), FALSE)
    ELSE Ch(t, 1) \o SlashForm(SubSeq(t, 2, Len(t)),
                               Ch(t, 1) \in Digit \/ (Ch(t, 1) = " " /\ afterDigit))

\* what the parser named fn returns for the text
ParsedBy(fn, text) ==
    IF fn = "parsePt" THEN parsePt(text, now)
    ELSE IF fn = "parsePtBrDate" THEN parsePtBrDate(text, now)
    ELSE parseBRDateTimeToISO(text)

\* C21: parsePt and parsePtBrDate give a date written with "-" separators
\* and an hour followed by "h" the same iso and ts as the same date and time
\* written with "/" separators and without the "h".
C21_DashAndHourMark ==
    arrivalRes.fn \in {"parsePt", "parsePtBrDate"} =>
        /\ arrivalRes.iso = ParsedBy(arrivalRes.fn, SlashForm(arrival, FALSE)).iso
        /\ arrivalRes.ts = ParsedBy(arrivalRes.fn, SlashForm(arrival, FALSE)).ts


\* the text of the groups of a match, written dd/mm[/yyyy][ hh[:mm]]
Rebuilt(m) ==
    m.d \o "/" \o m.mo
        \o (IF m.y # Null THEN "/" \o Val(m.y) ELSE "")
        \o (IF m.h # Null THEN " " \o Val(m.h) ELSE "")
        \o (IF m.mi # Null THEN ":" \o Val(m.mi) ELSE "")

\* the fields the text stands for, every missing one at its default
Defaulted(m, nowYear) ==
    [year |-> IF m.y # Null THEN Number(Val(m.y)) ELSE nowYear,
     mon  |-> Number(m.mo),
     day  |-> Number(m.d),
     hh   |-> IF m.h # Null THEN Number(Val(m.h)) ELSE 0,
     mm   |-> IF m.mi # Null THEN Number(Val(m.mi)) ELSE 0]

\* the text is dd/mm[/yyyy][ hh[:mm]][h] with a four-digit year or none, has
\* its fields in range and leaves out the year, the time or the minutes
LeavesSomethingOut(text, m) ==
    /\ m.ok
    /\ Trim(text) \in {Rebuilt(m), Rebuilt(m) \o "h"}
    /\ m.y # Null => Len(Val(m.y)) = 4
    /\ m.y = Null \/ m.h = Null \/ m.mi = Null
    /\ ~OutOfRange(Defaulted(m, 0))

\* C22: parsePt and parseBRDateTimeToISO read a text without year with the
\* year of now, a text without time as 00:00 and an hour without minutes as
\* hh:00; "07/09 8h" gives now's year, -09-07T08:00:00-03:00.
C22_MissingFieldsDefault ==
    arrivalRes.fn \in {"parsePt", "parseBRDateTimeToISO"} =>
        /\ LeavesSomethingOut(arrival, DateMatch(Trim(arrival), {"/"})) =>
               arrivalRes.iso =
                   Some(pad(Defaulted(DateMatch(Trim(arrival), {"/"}), now).year, 4)
                        \o "-" \o pad(Defaulted(DateMatch(Trim(arrival), {"/"}), now).mon, 2)
                        \o "-" \o pad(Defaulted(DateMatch(Trim(arrival), {"/"}), now).day, 2)
                        \o "T" \o pad(Defaulted(DateMatch(Trim(arrival), {"/"}), now).hh, 2)
                        \o ":" \o pad(Defaulted(DateMatch(Trim(arrival), {"/"}), now).mm, 2)
                        \o ":00-03:00")
        /\ arrival = "07/09 8h" => arrivalRes.iso = Some(pad(now, 4) \o "-09-07T08:00:00-03:00")


(***************************************************************************)
(* More claims about the handlers.                                         *)
(***************************************************************************)
\* the tables of the page that have the row among their body rows
TablesOf(p, row) == {i \in DOMAIN p : \E j \in DOMAIN p[i].body : p[i].body[j] = row}

\* C24: the raw rows of the records of one response all have the same number
\* of cells, and each has the column count of the table it comes from.
C24_RawHasTableWidth ==
    (ships.fn = "FetchV1" \/ ships.fn = "FetchV2") =>
        /\ \A r1, r2 \in DOMAIN ships.ships :
               Len(ships.ships[r1].raw) = Len(ships.ships[r2].raw)
        /\ \A r \in DOMAIN ships.ships :
               \E i \in TablesOf(page, ships.ships[r].raw) :
                   Len(ships.ships[r].raw) = Width(page[i])


\* the columns of the row that the keys map to k, index 0 first
ColumnsOf(keys, row, k) == {i \in 0..(Len(row) - 1) : KeyAt(keys, i) = k}

\* the field k of the record is the cell of the leftmost column mapped to k
LeftmostWins(keys, rec, k) ==
    ColumnsOf(keys, rec.raw, k) # {} =>
        rec[k] = OrNull(Trim(Cell(rec.raw, CHOOSE i \in ColumnsOf(keys, rec.raw, k) :
                                               \A j \in ColumnsOf(keys, rec.raw, k) : i <= j)))

\* C29: in the header-aware handler, when several header labels map to one
\* key (DUV and DUV Class both map to duv), the record field takes the cell
\* of the leftmost of those columns.
C29_LeftmostColumnWins ==
    ships.fn = "FetchV2" =>
        \A r \in DOMAIN ships.ships :
            \A k \in {"ship", "flag", "nav", "agency", "operation", "goods", "weight",
                      "voyage", "duv", "priority", "terminal"} :
                LeftmostWins(ships.keys, ships.ships[r], k)


(***************************************************************************)
(* More claims about the cargo categorizers.                               *)
(***************************************************************************)
\* one of the four fields, by itself, contains a keyword of the list
FieldHit(needles) == \E i \in 1..4 : hasAny(bag[i], needles)

\* C30: classifyCargo gives a category only when one single field (goods,
\* terminal, pier or agency) by itself contains a keyword of that category;
\* goods "santos" with terminal "brasil" is not Container.
C30_FieldIsolation ==
    cargoRes.fn = "classifyCargo" =>
        /\ cargoRes.label = "Container" => FieldHit(K_CONTAINER)
        /\ cargoRes.label = "Liquid (Oil)" => FieldHit(K_LIQUID)
        /\ cargoRes.label = "Bulk" => FieldHit(K_BULK)
        /\ (bag[1] = "santos" /\ bag[2] = "brasil") => cargoRes.label # "Container"


(***************************************************************************)
(* The HTMLRewriter handlers of the first handler of worker.ts (and of     *)
(* part_001), driven by the events of a document.  rows, cur and col are   *)
(* the variables of the source; cur is the row pushed last, kept as its    *)
(* place in rows.  A text written while col is -1 goes to the property -1  *)
(* of the row, which is no cell: stray holds it.  open and log follow the  *)
(* document, not the program: open is the stack of the open tr and td      *)
(* elements (a tr inside a td is a row of a nested table) and log has, for *)
(* every td, the row its parent tr started and the text fragments that     *)
(* arrived while it was the innermost open td.                             *)
(***************************************************************************)
MaxRowStarts == 2
MaxCellStarts == 3
MaxTexts == 2

\* the text chunks a cell receives: the empty last chunk of a text node, a
\* chunk that ends with a blank, a plain chunk
Fragments == {"", "MSC ", "ANNA"}

\* arr[i] = v for an array without holes and i at most arr.length
SetAt(arr, i, v) == IF i < Len(arr) THEN [arr EXCEPT ![i + 1] = v] ELSE Append(arr, v)

\* the tag of the innermost open element
TopTag(stack) == IF Len(stack) = 0 THEN "none" ELSE stack[Len(stack)].tag

\* the innermost open td, as its place in log; 0 when no td is open
InnermostCell(stack) ==
    LET S == {i \in DOMAIN stack : stack[i].tag = "td"}
    IN  IF S = {} THEN 0 ELSE stack[CHOOSE i \in S : \A j \in S : j <= i].id

\* the text events delivered so far
RECURSIVE TextCount(_)
TextCount(l) == IF Len(l) = 0 THEN 0 ELSE Len(l[1].frags) + TextCount(Tail(l))

InitRewriter ==
    /\ rows = <<>>
    /\ cur = Null
    /\ col = -1
    /\ stray = <<>>
    /\ open = <<>>
    /\ log = <<>>
    /\ IdleDate
    /\ IdleImo
    /\ IdleLenDraft
    /\ IdleNotice
    /\ IdleCargo
    /\ IdleHeader
    /\ IdlePage
    /\ IdleFlag
    /\ IdleRequest
    /\ IdleComponent

\* .on("table tbody tr", { element() { cur = []; rows.push(cur); col = -1; } }):
\* a tr starts at the top level of a table or, in a nested table, inside a td
RowStart ==
    /\ TopTag(open) \in {"none", "td"}
    /\ Len(rows) < MaxRowStarts
    /\ rows' = Append(rows, <<>>)
    /\ stray' = Append(stray, Null)
    /\ cur' = Some(Len(rows) + 1)
    /\ col' = -1
    /\ open' = Append(open, [tag |-> "tr", id |-> Len(rows) + 1])
    /\ UNCHANGED <<dateVars, imoVars, lenVars, noticeVars, cargoVars, headerVars, pageVars,
                   flagVars, log, reqVars, uiVars>>

\* element() { if (!cur) return; col++; cur[col] = ""; } of "table tbody tr td"
CellStart ==
    /\ TopTag(open) = "tr"
    /\ Len(log) < MaxCellStarts
    /\ IF cur = Null THEN UNCHANGED <<rows, col, reqVars, uiVars>>
       ELSE /\ col' = col + 1
            /\ rows' = [rows EXCEPT ![Val(cur)] = SetAt(@, col + 1, "")]
    /\ log' = Append(log, [parent |-> open[Len(open)].id, frags |-> <<>>])
    /\ open' = Append(open, [tag |-> "td", id |-> Len(log) + 1])
    /\ UNCHANGED <<dateVars, imoVars, lenVars, noticeVars, cargoVars, headerVars, pageVars,
                   flagVars, cur, stray, reqVars, uiVars>>

\* cur[col] = (cur[col] + " " + t.text).trim() with cur[col] undefined
StrayText(old, f) == Trim((IF old = Null THEN "undefined" ELSE Val(old)) \o " " \o f)

\* text(t) { if (!cur) return; cur[col] = (cur[col] + " " + t.text).trim(); }:
\* a chunk of text anywhere inside an open td
Text ==
    /\ InnermostCell(open) # 0
    /\ TextCount(log) < MaxTexts
    /\ \E f \in Fragments :
           /\ IF cur = Null THEN UNCHANGED <<rows, stray, reqVars, uiVars>>
              ELSE IF col = -1
              THEN /\ stray' = [stray EXCEPT ![Val(cur)] = Some(StrayText(@, f))]
                   /\ UNCHANGED rows
              ELSE /\ rows' = [rows EXCEPT ![Val(cur)][col + 1] = Trim(@ \o " " \o f)]
                   /\ UNCHANGED stray
           /\ log' = [log EXCEPT ![InnermostCell(open)].frags = Append(@, f)]
    /\ UNCHANGED <<dateVars, imoVars, lenVars, noticeVars, cargoVars, headerVars, pageVars,
                   flagVars, cur, col, open, reqVars, uiVars>>

\* the end tag of the innermost open element: no handler is registered for it
EndTag ==
    /\ Len(open) > 0
    /\ open' = SubSeq(open, 1, Len(open) - 1)
    /\ UNCHANGED <<dateVars, imoVars, lenVars, noticeVars, cargoVars, headerVars, pageVars,
                   flagVars, rows, cur, col, stray, log, reqVars, uiVars>>

NextRewriter == RowStart \/ CellStart \/ Text \/ EndTag

SpecRewriter == InitRewriter /\ [][NextRewriter]_vars


(***************************************************************************)
(* Claims about the extraction of the cell texts.                          *)
(***************************************************************************)
\* the td elements of the row element r, as their places in log
CellsOfRow(r) == {e \in DOMAIN log : log[e].parent = r}

\* the place of the td e among the td elements of its row, 1 first
PlaceInRow(e) == Cardinality({e2 \in CellsOfRow(log[e].parent) : e2 <= e})

\* C23: the text stored for a cell is the fragments the cell received, joined
\* with one space and trimmed (compared here up to the width of the runs of
\* blanks); a cell without text is stored as "", and a row has one entry per
\* cell-start event of its tr.
C23_CellTextIsJoinedFragments ==
    /\ \A e \in DOMAIN log :
           /\ PlaceInRow(e) <= Len(rows[log[e].parent])
           /\ CollapseSpaces(rows[log[e].parent][PlaceInRow(e)])
                  = CollapseSpaces(Trim(Join(log[e].frags)))
    /\ \A r \in DOMAIN rows : Len(rows[r]) = Cardinality(CellsOfRow(r))

\* C26: col is the number of cells of the current row minus 1; no text event
\* arrives while col is -1 (nothing is stored under the index -1); and a row
\* holds no cell of another row: a row of a nested table does not capture
\* the remaining cells of the outer row.
C26_RewriterState ==
    /\ cur # Null => col = Len(rows[Val(cur)]) - 1
    /\ \A r \in DOMAIN stray : stray[r] = Null
    /\ \A r \in DOMAIN rows : Len(rows[r]) <= Cardinality(CellsOfRow(r))


(***************************************************************************)
(* The request flow of the worker: fetch(req, env, ctx).  An execution     *)
(* runs from one await to the next, so several executions interleave and   *)
(* share caches.default.  The handlers built on HTMLRewriter (worker.ts    *)
(* 185, 473, 769, part_001 92, 371) have the same flow; the handler built  *)
(* on regular expressions (part_002 319) has no cache and no OPTIONS       *)
(* branch.  trace keeps, for each execution, the steps it has gone through.*)
(***************************************************************************)
MaxRequests == 2

Handlers == {"rewriter", "regex"}
Methods == {"OPTIONS", "GET"}
ApiKeys == {Null, Some("wrong"), Some("right")}
Paths == {"/", "/health"}

\* what the upstream fetch resolves to; 0 is the promise being rejected
UpstreamStatuses == {200, 503, 0}

\* Response.ok
ok(status) == status >= 200 /\ status <= 299

\* new Response(JSON.stringify({ error }), { status })
ErrorResponse(status, error) ==
    [status |-> status, error |-> Some(error), data |-> "none"]

\* the response of a run that mapped the page to ship records
ShipsResponse == [status |-> 200, error |-> Null, data |-> "fresh"]

\* new Response(hit.body, hit)
CachedResponse(hit) == [hit EXCEPT !.data = "cached"]

\* env.API_KEY && req.headers.get("x-api-key") !== env.API_KEY
Unauthorized(r) == env.API_KEY # Null /\ r.key # env.API_KEY

\* the execution i returns the response resp
Return(i, resp) ==
    [reqs EXCEPT ![i].pc = "done", ![i].response = Some(resp)]

\* the execution i goes on to the await named pc, having done step
Step(rs, i, pc, step) ==
    [rs EXCEPT ![i].pc = pc, ![i].trace = Append(@, step)]

InitRequest ==
    /\ env \in [API_KEY : {Null, Some("right")}, handler : Handlers]
    /\ cache = [p \in Paths |-> Null]
    /\ reqs = <<>>
    /\ IdleDate
    /\ IdleImo
    /\ IdleLenDraft
    /\ IdleNotice
    /\ IdleCargo
    /\ IdleHeader
    /\ IdlePage
    /\ IdleFlag
    /\ IdleRewriter
    /\ IdleComponent

\* a request reaches the worker
Receive ==
    /\ Len(reqs) < MaxRequests
    /\ \E method \in Methods, key \in ApiKeys, path \in Paths :
           reqs' = Append(reqs, [method |-> method, key |-> key,
                                 path |-> path, pc |-> "start",
                                 trace |-> <<>>, up |-> Null,
                                 response |-> Null, put |-> "none"])
    /\ UNCHANGED <<env, cache, uiVars>>
    /\ UNCHANGED <<dateVars, imoVars, lenVars, noticeVars, cargoVars, headerVars, pageVars, flagVars, rwVars, uiVars>>

\* worker.ts 186-205: the OPTIONS branch, the API key, then cache.match
EnterRewriter(i) ==
    IF reqs[i].method = "OPTIONS"
    THEN Return(i, [status |-> 204, error |-> Null, data |-> "none"])
    ELSE IF Unauthorized(reqs[i])
    THEN Return(i, ErrorResponse(401, "unauthorized"))
    ELSE Step(reqs, i, "match", "key")

\* part_002 321-334: the API key, /health, then fetch
EnterRegex(i) ==
    IF Unauthorized(reqs[i])
    THEN Return(i, ErrorResponse(401, "Unauthorized"))
    ELSE IF reqs[i].path = "/health"
    THEN [Step(reqs, i, "done", "key") EXCEPT
              ![i].response = Some([status |-> 200, error |-> Null, data |-> "ok"])]
    ELSE Step(reqs, i, "fetch", "key")

Enter ==
    /\ \E i \in DOMAIN reqs :
           /\ reqs[i].pc = "start"
           /\ reqs' = IF env.handler = "rewriter" THEN EnterRewriter(i)
                                                  ELSE EnterRegex(i)
    /\ UNCHANGED <<env, cache, uiVars>>
    /\ UNCHANGED <<dateVars, imoVars, lenVars, noticeVars, cargoVars, headerVars, pageVars, flagVars, rwVars, uiVars>>

\* worker.ts 205-206: const cached = await cache.match(cacheKey);
\* if (cached) return new Response(cached.body, cached);
Match_NoReturn(i) ==
    Step(reqs, i, "fetch", IF cache[reqs[i].path] # Null THEN "hit" ELSE "miss")

Match(i) ==
    IF cache[reqs[i].path] # Null
    THEN [Step(reqs, i, "done", "hit") EXCEPT
              ![i].response = Some(CachedResponse(Val(cache[reqs[i].path])))]
    ELSE Step(reqs, i, "fetch", "miss")

CacheMatch ==
    /\ \E i \in DOMAIN reqs :
           /\ reqs[i].pc = "match"
           /\ reqs' = Match(i)
    /\ UNCHANGED <<env, cache, uiVars>>
    /\ UNCHANGED <<dateVars, imoVars, lenVars, noticeVars, cargoVars, headerVars, pageVars, flagVars, rwVars, uiVars>>

\* the message of the 502: worker.ts 213, part_002 343
UpstreamError(status) ==
    IF env.handler = "rewriter" THEN "upstream " \o ToString(status)
                                ELSE "Upstream HTTP " \o ToString(status)

\* a rejected fetch: part_002 374-376 catches it; the other handlers have no
\* try, the runtime answers the exception with a 500
Thrown == ErrorResponse(500, "fetch failed")

\* worker.ts 209-217, part_002 336-344: await fetch(SOURCE), if (!upstream.ok)
Fetched_NoCheck(i, status) ==
    LET rs == [Step(reqs, i, "body", "fetch") EXCEPT ![i].up = Some(status)]
    IN  IF status = 0
        THEN [rs EXCEPT ![i].pc = "done", ![i].response = Some(Thrown)]
        ELSE rs

Fetched(i, status) ==
    LET rs == [Step(reqs, i, "body", "fetch") EXCEPT ![i].up = Some(status)]
    IN  IF status = 0
        THEN [rs EXCEPT ![i].pc = "done", ![i].response = Some(Thrown)]
        ELSE IF ~ok(status)
        THEN [rs EXCEPT ![i].pc = "done",
                        ![i].response = Some(ErrorResponse(502, UpstreamError(status)))]
        ELSE rs

Fetch ==
    /\ \E i \in DOMAIN reqs :
           /\ reqs[i].pc = "fetch"
           /\ \E status \in UpstreamStatuses : reqs' = Fetched(i, status)
    /\ UNCHANGED <<env, cache, uiVars>>
    /\ UNCHANGED <<dateVars, imoVars, lenVars, noticeVars, cargoVars, headerVars, pageVars, flagVars, rwVars, uiVars>>

\* worker.ts 219-333: the rows are extracted and mapped, the response is
\* built and cache.put is handed to ctx.waitUntil; part_002 345-373 returns
\* the response and has no cache
Extract ==
    /\ \E i \in DOMAIN reqs :
           /\ reqs[i].pc = "body"
           /\ reqs' = [Step(reqs, i, "done", "extract") EXCEPT
                           ![i].response = Some(ShipsResponse),
                           ![i].put = IF env.handler = "rewriter"
                                      THEN "pending" ELSE "none"]
    /\ UNCHANGED <<env, cache, uiVars>>
    /\ UNCHANGED <<dateVars, imoVars, lenVars, noticeVars, cargoVars, headerVars, pageVars, flagVars, rwVars, uiVars>>

\* worker.ts 332: the cache.put given to ctx.waitUntil completes
CachePut ==
    /\ \E i \in DOMAIN reqs :
           /\ reqs[i].put = "pending"
           /\ reqs' = [reqs EXCEPT ![i].put = "stored"]
           /\ cache' = [cache EXCEPT ![reqs[i].path] = reqs[i].response]
    /\ UNCHANGED env
    /\ UNCHANGED <<dateVars, imoVars, lenVars, noticeVars, cargoVars, headerVars, pageVars, flagVars, rwVars, uiVars>>

\* worker.ts 327: s-maxage=600, the stored response goes out of date
Expire ==
    /\ \E p \in Paths :
           /\ cache[p] # Null
           /\ cache' = [cache EXCEPT ![p] = Null]
    /\ UNCHANGED <<env, reqs, uiVars>>
    /\ UNCHANGED <<dateVars, imoVars, lenVars, noticeVars, cargoVars, headerVars, pageVars, flagVars, rwVars, uiVars>>

NextRequest ==
    \/ Receive
    \/ Enter
    \/ CacheMatch
    \/ Fetch
    \/ Extract
    \/ CachePut
    \/ Expire

SpecRequest == InitRequest /\ [][NextRequest]_vars


(***************************************************************************)
(* Claims about the request flow.                                          *)
(***************************************************************************)
\* the places of the trace of execution i where it did step
Steps(i, step) == {k \in DOMAIN reqs[i].trace : reqs[i].trace[k] = step}

\* the upstream fetch of execution i resolved to a non-success status
UpstreamFailed(i) ==
    /\ reqs[i].up # Null
    /\ Val(reqs[i].up) # 0
    /\ ~ok(Val(reqs[i].up))

\* C25: when the upstream fetch returns a non-success status the execution
\* ends at once with a 502 whose error names the upstream status, carries no
\* ship records, has run no extraction and hands nothing to cache.put.
C25_UpstreamFailure ==
    \A i \in DOMAIN reqs :
        UpstreamFailed(i) =>
            /\ reqs[i].pc = "done"
            /\ reqs[i].response # Null
            /\ Val(reqs[i].response).status = 502
            /\ Val(reqs[i].response).error # Null
            /\ includes(Val(Val(reqs[i].response).error), ToString(Val(reqs[i].up)))
            /\ Val(reqs[i].response).data = "none"
            /\ Steps(i, "extract") = {}
            /\ reqs[i].put = "none"

\* C25 witness: an execution whose upstream fetch gave 503 has answered
C25_FailureAnswered ==
    \E i \in DOMAIN reqs :
        /\ reqs[i].up = Some(503)
        /\ reqs[i].pc = "done"
        /\ reqs[i].response # Null

\* C27: an execution fetches the upstream page at most once, and only after
\* the API key check has passed and, in the handlers that have a cache, the
\* cache lookup has missed; a non-OPTIONS request whose x-api-key is missing
\* or wrong while API_KEY is set never reaches the cache or the upstream and
\* is answered 401 without ship data; a cache hit is returned without an
\* upstream fetch.
C27_RequestFlow ==
    \A i \in DOMAIN reqs :
        /\ Cardinality(Steps(i, "fetch")) <= 1
        /\ \A k \in Steps(i, "fetch") :
               /\ \E j \in Steps(i, "key") : j < k
               /\ env.handler = "rewriter" => \E j \in Steps(i, "miss") : j < k
        /\ (reqs[i].method # "OPTIONS" /\ Unauthorized(reqs[i])) =>
               /\ reqs[i].trace = <<>>
               /\ reqs[i].put = "none"
               /\ reqs[i].response # Null =>
                      /\ Val(reqs[i].response).status = 401
                      /\ Val(reqs[i].response).data = "none"
        /\ Steps(i, "hit") # {} =>
               /\ Steps(i, "fetch") = {}
               /\ reqs[i].pc = "done"
               /\ reqs[i].response # Null
               /\ Val(reqs[i].response).data = "cached"

\* C27 witness: one execution was answered from the cache that another one,
\* which fetched the upstream page, had filled
C27_HitAfterFetch ==
    \E i, j \in DOMAIN reqs :
        /\ Steps(i, "hit") # {}
        /\ reqs[i].response # Null
        /\ Steps(j, "fetch") # {}
        /\ reqs[j].put = "stored"


(***************************************************************************)
(* The table component (part_000): fetchData runs on mount and on every    *)
(* tick of the refresh interval; each call starts a fetch whose promise    *)
(* chain settles later, in any order.  data and err hold the number of the *)
(* call that set them.                                                     *)
(***************************************************************************)
MaxCalls == 3

\* what a fetch settles to: r.ok, !r.ok (HTTP <status>), or a rejection
Outcomes == {"ok", "http", "rejected"}

InitComponent ==
    /\ data = Null
    /\ err = Null
    /\ loading = FALSE
    /\ calls = <<>>
    /\ IdleDate
    /\ IdleImo
    /\ IdleLenDraft
    /\ IdleNotice
    /\ IdleCargo
    /\ IdleHeader
    /\ IdlePage
    /\ IdleFlag
    /\ IdleRewriter
    /\ IdleRequest

\* part_000 86-96, 98-104: fetchData(), called by the effect and by setInterval
fetchData ==
    /\ Len(calls) < MaxCalls
    /\ loading' = TRUE
    /\ err' = Null
    /\ calls' = Append(calls, [pc |-> "flight", outcome |-> Null])
    /\ UNCHANGED data
    /\ UNCHANGED <<dateVars, imoVars, lenVars, noticeVars, cargoVars, headerVars, pageVars, flagVars, rwVars, reqVars>>

\* part_000 92: the fetch of call i settles; a response that is ok goes on
\* to r.json(), anything else is thrown to catch (94) and finally (95)
Settle ==
    /\ \E i \in DOMAIN calls, outcome \in Outcomes :
           /\ calls[i].pc = "flight"
           /\ IF outcome = "ok"
              THEN /\ calls' = [calls EXCEPT ![i] = [pc |-> "json", outcome |-> Some(outcome)]]
                   /\ UNCHANGED <<err, loading>>
              ELSE /\ calls' = [calls EXCEPT ![i] = [pc |-> "done", outcome |-> Some(outcome)]]
                   /\ err' = Some(i)
                   /\ loading' = FALSE
    /\ UNCHANGED data
    /\ UNCHANGED <<dateVars, imoVars, lenVars, noticeVars, cargoVars, headerVars, pageVars, flagVars, rwVars, reqVars>>

\* part_000 93, 95: r.json() of call i resolves: setData(j), setLoading(false)
Json ==
    /\ \E i \in DOMAIN calls :
           /\ calls[i].pc = "json"
           /\ calls' = [calls EXCEPT ![i].pc = "done"]
           /\ data' = Some(i)
    /\ loading' = FALSE
    /\ UNCHANGED err
    /\ UNCHANGED <<dateVars, imoVars, lenVars, noticeVars, cargoVars, headerVars, pageVars, flagVars, rwVars, reqVars>>

NextComponent ==
    \/ fetchData
    \/ Settle
    \/ Json

SpecComponent == InitComponent /\ [][NextComponent]_vars

\* every call of fetchData has run its promise chain to the end
AllArrived == calls # <<>> /\ \A i \in DOMAIN calls : calls[i].pc = "done"

\* C28: once all responses have arrived, the data and the error shown are
\* the outcome of the call issued last: its response and no error when it
\* succeeded, its error when it failed.
C28_LatestRequestWins ==
    AllArrived =>
        IF calls[Len(calls)].outcome = Some("ok")
        THEN data = Some(Len(calls)) /\ err = Null
        ELSE err = Some(Len(calls))


====
